---- MODULE Spec2Model ----
(***************************************************************************)
(* Transcript analytics pipeline of the meeting assistant backend:         *)
(*   - merge_transcription_diarization   (backend/app/api.py)              *)
(*   - ActionItemExtractor               (backend/services/action_items.py)*)
(*   - MentionTracker                    (backend/services/mention_tracker.py)*)
(*   - PersonalInsightsService           (backend/services/personal_insights.py)*)
(*   - upload_meeting                    (backend/app/api.py)              *)
(*   - DiarizationService                (backend/services/diarization.py) *)
(* Text is modelled as a sequence of one-character strings, times as       *)
(* integers on a small grid (only their order is used by the code).        *)
(***************************************************************************)
EXTENDS Integers, Sequences, FiniteSets, TLC

(***************************************************************************)
(* Bounds of the model.                                                    *)
(***************************************************************************)
MaxTime == 2
MaxSegs == 2
MaxDia == 2
MaxBody == 2
MaxSents == 3
MaxTokens == 3
MaxCallers == 2

(***************************************************************************)
(* State.                                                                  *)
(***************************************************************************)
\* merge_transcription_diarization: position, arguments, return value.
VARIABLES m_pc, transcription, diarization, merged

alignVars == <<m_pc, transcription, diarization, merged>>

\* ActionItemExtractor.extract: position, the collaborator's sentences, the loop
\* index, the locals of the last iteration, the list of items.
VARIABLES e_pc, doc, e_i, e_local, action_items

extractVars == <<e_pc, doc, e_i, e_local, action_items>>

\* MentionTracker.track_mentions: position, the arguments (username and its
\* stripped rebinding, transcript, segments, diarization flag), the locals, the
\* return value.
VARIABLES t_pc, username, t_username, full_transcript, segments, diarization_available,
          name_variations, mentions, track_result

trackArgs == <<username, full_transcript, segments, diarization_available>>

trackVars == <<t_pc, trackArgs, t_username, name_variations, mentions, track_result>>

\* PersonalInsightsService.extract_personal_insights: position, the arguments,
\* what the summarization pipeline answers when it is run, the locals, the
\* calls that reached the collaborator, the return value.
VARIABLES p_pc, user_name, p_full_transcript, p_segments, p_action_items,
          p_diarization_available, summarizer_reply, personal_transcript,
          personal_segments, personal_summary, summarize_calls, insights

insightArgs == <<user_name, p_full_transcript, p_segments, p_action_items,
                 p_diarization_available, summarizer_reply>>

insightVars == <<p_pc, insightArgs, personal_transcript, personal_segments,
                 personal_summary, summarize_calls, insights>>

\* upload_meeting: position, the request (extension of the file name, the
\* user_name query parameter), the file under uploads/, the background task,
\* the steps that returned, the optional steps whose error was swallowed, the
\* step whose exception reached the except clause, the status of the answer,
\* and the optional parts of the response.
VARIABLES u_pc, file_ext, query_user_name, file_on_disk, cleanup_scheduled,
          returned, swallowed, raised_at, status_code, diarization_result,
          personal_insights, mention_tracking

uploadVars == <<u_pc, file_ext, query_user_name, file_on_disk, cleanup_scheduled,
                returned, swallowed, raised_at, status_code, diarization_result,
                personal_insights, mention_tracking>>

\* DiarizationService: each calling thread's position in DiarizationService()
\* and diarize, the class attributes _instance (0 for None), _lock (0 when
\* free, else its holder) and _initialized, the attributes of the instance
\* ("unset" before __init__ assigns them), settings.HF_TOKEN, the number of
\* objects created, of runs of line 33 and of pipelines loaded, what each
\* constructor call returned and what each diarize returned.
VARIABLES d_pc, instance, lock, initialized, pipeline, device, is_loading,
          hf_token, created, init_count, load_count, obtained, diarized

diarVars == <<d_pc, instance, lock, initialized, pipeline, device, is_loading,
              hf_token, created, init_count, load_count, obtained, diarized>>

hostVars == <<uploadVars, diarVars>>

(***************************************************************************)
(* Generic helpers.                                                        *)
(***************************************************************************)
SeqsUpTo(S, n) == UNION {[1..k -> S] : k \in 0..n}

Range(s) == {s[k] : k \in 1..Len(s)}

\* The concatenation of a list of lists.
RECURSIVE Concat(_)
Concat(ts) == IF Len(ts) = 0 THEN <<>> ELSE Head(ts) \o Concat(Tail(ts))

\* A function on 1..n as a sequence.
AsSeq(f, n) == SubSeq(f, 1, n)

(***************************************************************************)
(* Text: Python str as a sequence of one-character strings.                *)
(***************************************************************************)
LowerLetters ==
    <<"a", "b", "c", "d", "e", "f", "g", "h", "i", "j", "k", "l", "m",
      "n", "o", "p", "q", "r", "s", "t", "u", "v", "w", "x", "y", "z">>

UpperLetters ==
    <<"A", "B", "C", "D", "E", "F", "G", "H", "I", "J", "K", "L", "M",
      "N", "O", "P", "Q", "R", "S", "T", "U", "V", "W", "X", "Y", "Z">>

LowerSet == Range(LowerLetters)

UpperSet == Range(UpperLetters)

DigitSet == {"0", "1", "2", "3", "4", "5", "6", "7", "8", "9"}

\* Python str.isspace for the characters of the model.
WhiteSpace == {" ", "\n", "\t"}

\* Regex \w for the characters of the model.
IsWordChar(c) == c \in LowerSet \cup UpperSet \cup DigitSet \cup {"_"}

LowerOf == [c \in UpperSet |-> LowerLetters[CHOOSE k \in 1..26 : UpperLetters[k] = c]]

UpperOf == [c \in LowerSet |-> UpperLetters[CHOOSE k \in 1..26 : LowerLetters[k] = c]]

ToLower(c) == IF c \in UpperSet THEN LowerOf[c] ELSE c

ToUpper(c) == IF c \in LowerSet THEN UpperOf[c] ELSE c

\* str.lower()
Lower(s) == SubSeq([k \in 1..Len(s) |-> ToLower(s[k])], 1, Len(s))

\* str.title(): a letter is upper-cased after a non-letter, lower-cased after a letter.
Title(s) ==
    SubSeq([k \in 1..Len(s) |->
              IF k = 1 \/ s[k - 1] \notin (LowerSet \cup UpperSet)
              THEN ToUpper(s[k]) ELSE ToLower(s[k])], 1, Len(s))

\* str.strip()
Strip(s) ==
    LET inked == {k \in 1..Len(s) : s[k] \notin WhiteSpace}
    IN  IF inked = {} THEN <<>>
        ELSE SubSeq(s, CHOOSE a \in inked : \A b \in inked : a <= b,
                       CHOOSE a \in inked : \A b \in inked : a >= b)

\* len(str.split()): the number of maximal runs of non-whitespace.
WordCount(s) ==
    Cardinality({k \in 1..Len(s) :
        s[k] \notin WhiteSpace /\ (k = 1 \/ s[k - 1] \in WhiteSpace)})

\* s[p:p+len(w)] == w, positions from 1.
HasAt(s, p, w) ==
    /\ p >= 1
    /\ p + Len(w) - 1 <= Len(s)
    /\ (Len(w) = 0 \/ s[p] = w[1])
    /\ SubSeq(s, p, p + Len(w) - 1) = w

\* `w in s`
Contains(s, w) ==
    \E p \in 1..(Len(s) - Len(w) + 1) :
        s[p] = w[1] /\ SubSeq(s, p, p + Len(w) - 1) = w

\* Regex \b in front of position p (p = Len(s) + 1: the end of the text).
Boundary(s, p) ==
    (p > 1 /\ IsWordChar(s[p - 1])) # (p <= Len(s) /\ IsWordChar(s[p]))

\* The number of characters of class C starting at position p.
RECURSIVE RunLen(_, _, _)
RunLen(s, p, C) ==
    IF p > Len(s) \/ s[p] \notin C THEN 0 ELSE 1 + RunLen(s, p + 1, C)

Min(S) == CHOOSE a \in S : \A b \in S : a <= b

Max(S) == CHOOSE a \in S : \A b \in S : a >= b

(***************************************************************************)
(* Interval aligner: api.py merge_transcription_diarization.               *)
(***************************************************************************)
DefaultSpeaker == "Speaker_0"

SpeakerLabels == {"SPEAKER_00", "SPEAKER_01"}

SegmentTexts == {"hello"}

\* Whisper segments: start <= end (start, end, text only).
TranscriptionSegments ==
    {r \in [start : 0..MaxTime, end : 0..MaxTime, text : SegmentTexts] :
        r.start <= r.end}

\* Diarization turns as DiarizationService.diarize converts them.
DiarizationIntervals ==
    {r \in [start : 0..MaxTime, end : 0..MaxTime, speaker : SpeakerLabels] :
        r.start < r.end}

\* The diarization argument: None, or a (possibly empty) list of intervals.
NoDiarization == [none |-> TRUE, list |-> <<>>]

DiarizationInputs ==
    {NoDiarization} \cup
    {[none |-> FALSE, list |-> l] : l \in SeqsUpTo(DiarizationIntervals, MaxDia)}

\* Python truthiness of the diarization argument (`if diarization:`).
Truthy(dia) == ~dia.none /\ Len(dia.list) > 0

\* Mutant: intervals that only touch the segment count as overlapping.
OverlapsTouching(dia_segment, segment) ==
    /\ dia_segment.start <= segment.end
    /\ dia_segment.end >= segment.start

\* api.py 157-158: the overlap test of the inner loop.
Overlaps(dia_segment, segment) ==
    /\ dia_segment.start < segment.end
    /\ dia_segment.end > segment.start

\* Mutant: the speaker is left unset when no interval overlaps.
RECURSIVE FindSpeakerNoFallback(_, _, _)
FindSpeakerNoFallback(list, segment, k) ==
    IF k > Len(list) THEN ""
    ELSE IF Overlaps(list[k], segment) THEN list[k].speaker
    ELSE FindSpeakerNoFallback(list, segment, k + 1)

\* api.py 154-160: default, then the first overlapping interval wins (break).
RECURSIVE FindSpeaker(_, _, _)
FindSpeaker(list, segment, k) ==
    IF k > Len(list) THEN DefaultSpeaker
    ELSE IF Overlaps(list[k], segment) THEN list[k].speaker
    ELSE FindSpeaker(list, segment, k + 1)

\* api.py 140-183.
merge_transcription_diarization(trans, dia) ==
    [full_text |-> trans.text,
     language |-> trans.language,
     segments |->
        IF Truthy(dia)
        THEN [k \in 1..Len(trans.segments) |->
                [start |-> trans.segments[k].start,
                 end |-> trans.segments[k].end,
                 text |-> trans.segments[k].text,
                 speaker |-> FindSpeaker(dia.list, trans.segments[k], 1)]]
        ELSE [k \in 1..Len(trans.segments) |->
                [start |-> trans.segments[k].start,
                 end |-> trans.segments[k].end,
                 text |-> trans.segments[k].text,
                 speaker |-> DefaultSpeaker]]]

NoMerged == [full_text |-> "", language |-> "", segments |-> <<>>]

(***************************************************************************)
(* Action item extractor: services/action_items.py.                        *)
(* The spaCy collaborator is an input: doc is the sequence of sentences it *)
(* reports, each with its text and the texts of its PERSON entities.       *)
(***************************************************************************)
\* Optional[str] None (entity texts and regex matches are never empty).
None == <<>>

\* action_items.py 12-17
action_verbs ==
    << <<"w", "i", "l", "l">>,
       <<"s", "h", "o", "u", "l", "d">>,
       <<"m", "u", "s", "t">>,
       <<"n", "e", "e", "d", " ", "t", "o">>,
       <<"n", "e", "e", "d", "s", " ", "t", "o">>,
       <<"h", "a", "v", "e", " ", "t", "o">>,
       <<"h", "a", "s", " ", "t", "o">>,
       <<"g", "o", "i", "n", "g", " ", "t", "o">>,
       <<"p", "l", "a", "n", " ", "t", "o">>,
       <<"p", "l", "a", "n", "s", " ", "t", "o">>,
       <<"r", "e", "s", "p", "o", "n", "s", "i", "b", "l", "e", " ", "f", "o", "r">>,
       <<"a", "s", "s", "i", "g", "n", "e", "d", " ", "t", "o">>,
       <<"t", "a", "k", "e", " ", "c", "a", "r", "e", " ", "o", "f">>,
       <<"h", "a", "n", "d", "l", "e">>,
       <<"c", "o", "m", "p", "l", "e", "t", "e">>,
       <<"f", "i", "n", "i", "s", "h">>,
       <<"d", "e", "l", "i", "v", "e", "r">>,
       <<"p", "r", "e", "p", "a", "r", "e">>,
       <<"c", "r", "e", "a", "t", "e">>,
       <<"b", "u", "i", "l", "d">>,
       <<"d", "e", "v", "e", "l", "o", "p">>,
       <<"d", "e", "s", "i", "g", "n">>,
       <<"i", "m", "p", "l", "e", "m", "e", "n", "t">>,
       <<"r", "e", "v", "i", "e", "w">>,
       <<"s", "e", "n", "d">> >>

\* action_items.py 19
priority_high ==
    << <<"u", "r", "g", "e", "n", "t">>,
       <<"a", "s", "a", "p">>,
       <<"i", "m", "m", "e", "d", "i", "a", "t", "e", "l", "y">>,
       <<"c", "r", "i", "t", "i", "c", "a", "l">>,
       <<"h", "i", "g", "h", " ", "p", "r", "i", "o", "r", "i", "t", "y">> >>

\* action_items.py 20 (never consulted by _extract_priority)
priority_medium ==
    << <<"i", "m", "p", "o", "r", "t", "a", "n", "t">>,
       <<"s", "o", "o", "n">>,
       <<"t", "h", "i", "s", " ", "w", "e", "e", "k">>,
       <<"m", "e", "d", "i", "u", "m", " ", "p", "r", "i", "o", "r", "i", "t", "y">> >>

\* action_items.py 21
priority_low ==
    << <<"w", "h", "e", "n", " ", "p", "o", "s", "s", "i", "b", "l", "e">>,
       <<"e", "v", "e", "n", "t", "u", "a", "l", "l", "y">>,
       <<"l", "o", "w", " ", "p", "r", "i", "o", "r", "i", "t", "y">>,
       <<"n", "i", "c", "e", " ", "t", "o", " ", "h", "a", "v", "e">> >>

\* action_items.py 24
weekday_names ==
    << <<"m", "o", "n", "d", "a", "y">>,
       <<"t", "u", "e", "s", "d", "a", "y">>,
       <<"w", "e", "d", "n", "e", "s", "d", "a", "y">>,
       <<"t", "h", "u", "r", "s", "d", "a", "y">>,
       <<"f", "r", "i", "d", "a", "y">>,
       <<"s", "a", "t", "u", "r", "d", "a", "y">>,
       <<"s", "u", "n", "d", "a", "y">> >>

\* action_items.py 25
relative_days ==
    << <<"t", "o", "m", "o", "r", "r", "o", "w">>,
       <<"t", "o", "d", "a", "y">>,
       <<"n", "e", "x", "t", " ", "w", "e", "e", "k">>,
       <<"t", "h", "i", "s", " ", "w", "e", "e", "k">> >>

\* action_items.py 26
month_names ==
    << <<"j", "a", "n", "u", "a", "r", "y">>,
       <<"f", "e", "b", "r", "u", "a", "r", "y">>,
       <<"m", "a", "r", "c", "h">>,
       <<"a", "p", "r", "i", "l">>,
       <<"m", "a", "y">>,
       <<"j", "u", "n", "e">>,
       <<"j", "u", "l", "y">>,
       <<"a", "u", "g", "u", "s", "t">>,
       <<"s", "e", "p", "t", "e", "m", "b", "e", "r">>,
       <<"o", "c", "t", "o", "b", "e", "r">>,
       <<"n", "o", "v", "e", "m", "b", "e", "r">>,
       <<"d", "e", "c", "e", "m", "b", "e", "r">> >>

\* action_items.py 80
roles ==
    << <<"t", "e", "a", "m">>,
       <<"d", "e", "s", "i", "g", "n", "e", "r">>,
       <<"d", "e", "v", "e", "l", "o", "p", "e", "r">>,
       <<"m", "a", "n", "a", "g", "e", "r">>,
       <<"l", "e", "a", "d">>,
       <<"e", "n", "g", "i", "n", "e", "e", "r">> >>

\* action_items.py 106
filler_words ==
    << <<"s", "o">>,
       <<"w", "e", "l", "l">>,
       <<"u", "m">>,
       <<"u", "h">>,
       <<"o", "k", "a", "y">>,
       <<"a", "l", "r", "i", "g", "h", "t">> >>

\* action_items.py 107
polite_prefixes ==
    << <<"c", "a", "n", " ", "y", "o", "u">>,
       <<"c", "o", "u", "l", "d", " ", "y", "o", "u">>,
       <<"w", "o", "u", "l", "d", " ", "y", "o", "u">>,
       <<"w", "i", "l", "l", " ", "y", "o", "u">> >>

\* The words of the sentences and the names the NER collaborator reports.
Word ==
    [SoC |-> <<"S", "o", ",">>,
     Someone |-> <<"S", "o", "m", "e", "o", "n", "e">>,
     CanYou |-> <<"C", "a", "n", " ", "y", "o", "u">>,
     WillC |-> <<"W", "i", "l", "l", ",">>,
     JohnC |-> <<"J", "o", "h", "n", ",">>,
     will |-> <<"w", "i", "l", "l">>,
     tomorrow |-> <<"t", "o", "m", "o", "r", "r", "o", "w">>,
     today |-> <<"t", "o", "d", "a", "y">>,
     friday |-> <<"f", "r", "i", "d", "a", "y">>,
     march5 |-> <<"m", "a", "r", "c", "h", " ", "5">>,
     numdate |-> <<"1", "/", "2", "/", "2", "3">>,
     urgent |-> <<"u", "r", "g", "e", "n", "t">>,
     eventually |-> <<"e", "v", "e", "n", "t", "u", "a", "l", "l", "y">>,
     important |-> <<"i", "m", "p", "o", "r", "t", "a", "n", "t">>,
     theteam |-> <<"t", "h", "e", " ", "t", "e", "a", "m">>,
     report |-> <<"r", "e", "p", "o", "r", "t">>,
     pad |-> <<"x">>,
     John |-> <<"J", "o", "h", "n">>,
     Mary |-> <<"M", "a", "r", "y">>,
     WillYou |-> <<"W", "i", "l", "l", " ", "y", "o", "u">>,
     TomorrowC |-> <<"T", "o", "m", "o", "r", "r", "o", "w", ",">>]

NoDeadline == <<"N", "o", " ", "d", "e", "a", "d", "l", "i", "n", "e", " ", "s", "p", "e", "c", "i", "f", "i", "e", "d">>
Unassigned == <<"U", "n", "a", "s", "s", "i", "g", "n", "e", "d">>
T_the == <<"t", "h", "e", " ">>
T_The == <<"T", "h", "e", " ">>
T_and == <<" ", "a", "n", "d", " ">>
D_Tomorrow == <<"T", "o", "m", "o", "r", "r", "o", "w">>
D_Friday == <<"F", "r", "i", "d", "a", "y">>
\* action_items.py 72-74
contains_action_verb(text) ==
    LET text_lower == Lower(text)
    IN  \E k \in 1..Len(action_verbs) : Contains(text_lower, action_verbs[k])

\* " and ".join(persons)
RECURSIVE JoinAnd(_)
JoinAnd(persons) ==
    IF Len(persons) = 0 THEN <<>>
    ELSE IF Len(persons) = 1 THEN persons[1]
    ELSE persons[1] \o T_and \o JoinAnd(Tail(persons))

\* Mutant: the role vocabulary is consulted before the PERSON entities.
extract_assignee_role_first(sentence) ==
    LET text_lower == Lower(sentence.text)
        found == {k \in 1..Len(roles) : Contains(text_lower, T_the \o roles[k])}
    IN  IF found # {} THEN T_The \o roles[Min(found)]
        ELSE IF Len(sentence.persons) > 0 THEN JoinAnd(sentence.persons)
        ELSE None

\* action_items.py 76-85 (sentence: the collaborator's sentence)
extract_assignee(sentence) ==
    IF Len(sentence.persons) > 0 THEN JoinAnd(sentence.persons)
    ELSE LET text_lower == Lower(sentence.text)
             found == {k \in 1..Len(roles) : Contains(text_lower, T_the \o roles[k])}
         IN  IF found = {} THEN None ELSE T_The \o roles[Min(found)]

\* \b(w1|w2|...)\b at position p: the length of the match, 0 when there is none.
WordAltAt(s, p, alts) ==
    LET hit == {k \in 1..Len(alts) :
                  HasAt(s, p, alts[k]) /\ Boundary(s, p + Len(alts[k]))}
    IN  IF Boundary(s, p) /\ hit # {} THEN Len(alts[Min(hit)]) ELSE 0

\* \b(month)\s+\d{1,2}\b at position p.
MonthDayAt(s, p) ==
    LET hit == {k \in 1..Len(month_names) : HasAt(s, p, month_names[k])}
        m == Len(month_names[Min(hit)])
        ws == RunLen(s, p + m, WhiteSpace)
        q == p + m + ws
        ds == {n \in 1..2 : RunLen(s, q, DigitSet) >= n /\ Boundary(s, q + n)}
    IN  IF Boundary(s, p) /\ hit # {} /\ ws >= 1 /\ ds # {}
        THEN m + ws + Max(ds) ELSE 0

\* \b\d{1,2}/\d{1,2}/\d{2,4}\b at position p.
NumericDateAt(s, p) ==
    LET d1 == RunLen(s, p, DigitSet)
        q == p + d1 + 1
        d2 == RunLen(s, q, DigitSet)
        r == q + d2 + 1
        ds == {n \in 2..4 : RunLen(s, r, DigitSet) >= n /\ Boundary(s, r + n)}
    IN  IF /\ Boundary(s, p)
           /\ d1 \in 1..2 /\ HasAt(s, p + d1, <<"/">>)
           /\ d2 \in 1..2 /\ HasAt(s, q + d2, <<"/">>)
           /\ ds # {}
        THEN d1 + 1 + d2 + 1 + Max(ds) ELSE 0

\* action_items.py 23-28: the pattern at index k of date_patterns, tried at p.
DatePatternAt(k, s, p) ==
    CASE k = 1 -> WordAltAt(s, p, weekday_names)
      [] k = 2 -> WordAltAt(s, p, relative_days)
      [] k = 3 -> MonthDayAt(s, p)
      [] k = 4 -> NumericDateAt(s, p)

NumDatePatterns == 4

\* re.search(date_patterns[k], s): <<position, length>> of the leftmost match.
DateSearch(k, s) ==
    LET at == {p \in 1..Len(s) : DatePatternAt(k, s, p) > 0}
        first == Min(at)
    IN  IF at = {} THEN <<0, 0>> ELSE <<first, DatePatternAt(k, s, first)>>

\* Mutant: the match that stands first in the sentence wins, whatever its pattern.
extract_deadline_leftmost(text) ==
    LET text_lower == Lower(text)
        found == {k \in 1..NumDatePatterns : DateSearch(k, text_lower)[1] > 0}
        first == CHOOSE k \in found :
                    \A j \in found : DateSearch(k, text_lower)[1] <= DateSearch(j, text_lower)[1]
        m == DateSearch(first, text_lower)
    IN  IF found = {} THEN None
        ELSE Title(SubSeq(text_lower, m[1], m[1] + m[2] - 1))

\* action_items.py 87-93
extract_deadline(text) ==
    LET text_lower == Lower(text)
        found == {k \in 1..NumDatePatterns : DateSearch(k, text_lower)[1] > 0}
        m == DateSearch(Min(found), text_lower)
    IN  IF found = {} THEN None
        ELSE Title(SubSeq(text_lower, m[1], m[1] + m[2] - 1))

\* Mutant: the low keywords are checked before the high ones.
extract_priority_low_first(text) ==
    LET text_lower == Lower(text)
    IN  IF \E k \in 1..Len(priority_low) : Contains(text_lower, priority_low[k])
        THEN "low"
        ELSE IF \E k \in 1..Len(priority_high) : Contains(text_lower, priority_high[k])
        THEN "high"
        ELSE "medium"

\* action_items.py 95-103
extract_priority(text) ==
    LET text_lower == Lower(text)
    IN  IF \E k \in 1..Len(priority_high) : Contains(text_lower, priority_high[k])
        THEN "high"
        ELSE IF \E k \in 1..Len(priority_low) : Contains(text_lower, priority_low[k])
        THEN "low"
        ELSE "medium"

DropFirst(s, n) == SubSeq(s, n + 1, Len(s))

\* action_items.py 106: re.sub(r'^(so|well|um|uh|okay|alright),?\s*', '', text, IGNORECASE)
StripFiller(text) ==
    LET low == Lower(text)
        hit == {k \in 1..Len(filler_words) : HasAt(low, 1, filler_words[k])}
        n == Len(filler_words[Min(hit)])
        c == IF HasAt(text, n + 1, <<",">>) THEN 1 ELSE 0
    IN  IF hit = {} THEN text
        ELSE DropFirst(text, n + c + RunLen(text, n + c + 1, WhiteSpace))

\* action_items.py 107: re.sub(r'^(can you|could you|would you|will you)\s+', '', text, IGNORECASE)
StripPolite(text) ==
    LET low == Lower(text)
        hit == {k \in 1..Len(polite_prefixes) : HasAt(low, 1, polite_prefixes[k])}
        n == Len(polite_prefixes[Min(hit)])
        ws == RunLen(text, n + 1, WhiteSpace)
    IN  IF hit = {} \/ ws = 0 THEN text ELSE DropFirst(text, n + ws)

\* action_items.py 108: re.sub(r'^[A-Z][a-z]+,\s*', '', text)
StripVocative(text) ==
    LET n == RunLen(text, 2, LowerSet)
    IN  IF Len(text) >= 1 /\ text[1] \in UpperSet /\ n >= 1 /\ HasAt(text, n + 2, <<",">>)
        THEN DropFirst(text, n + 2 + RunLen(text, n + 3, WhiteSpace))
        ELSE text

\* action_items.py 110-111
Capitalize(text) ==
    IF Len(text) = 0 THEN text ELSE <<ToUpper(text[1])>> \o Tail(text)

\* action_items.py 105-112
extract_task_description(text) ==
    Capitalize(Strip(StripVocative(StripPolite(StripFiller(text)))))

\* Mutant: a deadline weighs as much as an assignee.
calculate_confidence_deadline_30(has_assignee, has_deadline, has_action_verb, sentence_length) ==
    LET score == (IF has_action_verb THEN 30 ELSE 0)
               + (IF has_assignee THEN 30 ELSE 0)
               + (IF has_deadline THEN 30 ELSE 0)
               + (IF 5 <= sentence_length /\ sentence_length <= 30 THEN 20 ELSE 0)
    IN  IF score < 100 THEN score ELSE 100

\* action_items.py 114-124, in hundredths.
calculate_confidence(has_assignee, has_deadline, has_action_verb, sentence_length) ==
    LET score == (IF has_action_verb THEN 30 ELSE 0)
               + (IF has_assignee THEN 30 ELSE 0)
               + (IF has_deadline THEN 20 ELSE 0)
               + (IF 5 <= sentence_length /\ sentence_length <= 30 THEN 20 ELSE 0)
    IN  IF score < 100 THEN score ELSE 100

\* action_items.py 65: priority_order.get(x["priority"], 3)
priority_order(priority) ==
    CASE priority = "high" -> 0
      [] priority = "medium" -> 1
      [] priority = "low" -> 2
      [] OTHER -> 3

\* list.sort(key=...): stable, so an item goes behind the items of its own rank.
RECURSIVE InsertByKey(_, _)
InsertByKey(sorted, x) ==
    IF Len(sorted) = 0 THEN <<x>>
    ELSE IF priority_order(sorted[Len(sorted)].priority) <= priority_order(x.priority)
    THEN Append(sorted, x)
    ELSE Append(InsertByKey(SubSeq(sorted, 1, Len(sorted) - 1), x), sorted[Len(sorted)])

RECURSIVE SortInto(_, _)
SortInto(items, acc) ==
    IF Len(items) = 0 THEN acc
    ELSE SortInto(Tail(items), InsertByKey(acc, Head(items)))

\* Mutant: an unstable sort, which puts an item in front of its equals.
RECURSIVE InsertBeforeEquals(_, _)
InsertBeforeEquals(sorted, x) ==
    IF Len(sorted) = 0 THEN <<x>>
    ELSE IF priority_order(sorted[Len(sorted)].priority) < priority_order(x.priority)
    THEN Append(sorted, x)
    ELSE Append(InsertBeforeEquals(SubSeq(sorted, 1, Len(sorted) - 1), x),
                sorted[Len(sorted)])

RECURSIVE SortUnstableInto(_, _)
SortUnstableInto(items, acc) ==
    IF Len(items) = 0 THEN acc
    ELSE SortUnstableInto(Tail(items), InsertBeforeEquals(acc, Head(items)))

sort_action_items_unstable(items) == SortUnstableInto(items, <<>>)

\* action_items.py 66
sort_action_items(items) == SortInto(items, <<>>)

\* action_items.py 38-52: the locals of one loop iteration.
Locals(sent) ==
    LET sentence_text == Strip(sent.text)
        assignee == extract_assignee(sent)
        deadline == extract_deadline(sentence_text)
    IN  [sentence_text |-> sentence_text,
         has_verb |-> TRUE,
         assignee |-> assignee,
         deadline |-> deadline,
         priority |-> extract_priority(sentence_text),
         task |-> extract_task_description(sentence_text),
         confidence |-> calculate_confidence(assignee # None, deadline # None, TRUE,
                                             WordCount(sentence_text))]

\* action_items.py 55-62
MakeItem(l) ==
    [task |-> l.task,
     assignee |-> IF l.assignee # None THEN l.assignee ELSE Unassigned,
     deadline |-> IF l.deadline # None THEN l.deadline ELSE NoDeadline,
     priority |-> l.priority,
     context |-> l.sentence_text,
     confidence |-> l.confidence]

\* action_items.py 54
Emits(l) == l.confidence >= 60 /\ l.task # <<>>

\* action_items.py 39-40: the sentence is skipped.
SkipLocals(text) ==
    [sentence_text |-> text, has_verb |-> FALSE, assignee |-> None, deadline |-> None,
     priority |-> "", task |-> <<>>, confidence |-> 0]

NoLocals == SkipLocals(<<>>)

\* action_items.py 37-62: one iteration of `for sent in doc.sents`.
ProcessSentence ==
    /\ e_pc = "loop"
    /\ e_i < Len(doc)
    /\ e_i' = e_i + 1
    /\ LET sent == doc[e_i + 1]
           l == Locals(sent)
       IN  IF ~contains_action_verb(Strip(sent.text))
           THEN /\ e_local' = SkipLocals(Strip(sent.text))
                /\ UNCHANGED action_items
           ELSE /\ e_local' = l
                /\ action_items' =
                     IF Emits(l) THEN Append(action_items, MakeItem(l))
                     ELSE action_items
    /\ UNCHANGED <<e_pc, doc, alignVars, hostVars, trackVars, insightVars>>

\* action_items.py 64-67: the loop is over; sort and return.
SortAndReturn ==
    /\ e_pc = "loop"
    /\ e_i = Len(doc)
    /\ action_items' = sort_action_items(action_items)
    /\ e_pc' = "done"
    /\ UNCHANGED <<doc, e_i, e_local, alignVars, hostVars, trackVars, insightVars>>

Merge ==
    /\ m_pc = "start"
    /\ merged' = merge_transcription_diarization(transcription, diarization)
    /\ m_pc' = "done"
    /\ UNCHANGED <<transcription, diarization, extractVars, trackVars, insightVars, hostVars>>

(***************************************************************************)
(* Mention tracker: services/mention_tracker.py.                           *)
(***************************************************************************)
\* mention_tracker.py 209: the gap of the deduplication.
DedupGap == 5

\* mention_tracker.py 167-168: the width of the context window.
ContextWidth == 50

\* username.split()
RECURSIVE SplitWords(_)
SplitWords(s) ==
    LET lead == RunLen(s, 1, WhiteSpace)
        rest == DropFirst(s, lead)
        inked == {k \in 1..Len(rest) : rest[k] \in WhiteSpace}
        n == IF inked = {} THEN Len(rest) ELSE Min(inked) - 1
    IN  IF Len(rest) = 0 THEN <<>>
        ELSE <<SubSeq(rest, 1, n)>> \o SplitWords(DropFirst(rest, n))

\* mention_tracker.py 128-139: the variations, as the set that list(set(...)) orders.
VariationSet(name) ==
    {Lower(name)} \cup
    (IF \E k \in 1..Len(name) : name[k] = " "
     THEN {Lower(SplitWords(name)[1]),
           Lower(AsSeq([k \in 1..Len(SplitWords(name)) |-> SplitWords(name)[k][1]],
                       Len(SplitWords(name))))}
     ELSE {})

\* The lists without repetition that hold exactly the elements of S.
OrdersOf(S) ==
    {l \in [1..Cardinality(S) -> S] : \A a, b \in 1..Cardinality(S) : a # b => l[a] # l[b]}

\* mention_tracker.py 118-139: list(set(variations)) in one of its iteration orders.
generate_name_variations(name) == OrdersOf(VariationSet(name))

\* r'\b' + re.escape(variation) + r'\b' matches at position p (case-insensitive).
VariationAt(low, p, variation) ==
    /\ HasAt(low, p, variation)
    /\ Boundary(low, p)
    /\ Boundary(low, p + Len(variation))

\* mention_tracker.py 162: re.finditer, scanning from position `from`; a match
\* is the 0-based start of Python; the scan resumes behind a match (one
\* character further behind an empty one).
RECURSIVE FindIter(_, _, _)
FindIter(low, variation, from) ==
    LET at == {p \in from..(Len(low) + 1) : VariationAt(low, p, variation)}
        p == Min(at)
    IN  IF at = {} THEN <<>>
        ELSE <<p - 1>> \o
             FindIter(low, variation, IF Len(variation) = 0 THEN p + 1 ELSE p + Len(variation))

\* mention_tracker.py 163-177: the mention of a match starting at start_pos.
MakeMention(transcript, variation, start_pos) ==
    LET end_pos == start_pos + Len(variation)
        context_start == Max({0, start_pos - ContextWidth})
        context_end == Min({Len(transcript), end_pos + ContextWidth})
    IN  [variation |-> variation,
         matched_text |-> SubSeq(transcript, start_pos + 1, end_pos),
         position |-> start_pos,
         end_position |-> end_pos,
         context |-> Strip(SubSeq(transcript, context_start + 1, context_end))]

\* mention_tracker.py 158-178: the candidates, variation by variation.
RECURSIVE Candidates(_, _, _)
Candidates(transcript, variations, k) ==
    IF k > Len(variations) THEN <<>>
    ELSE LET starts == FindIter(Lower(transcript), variations[k], 1)
         IN  AsSeq([j \in 1..Len(starts) |->
                      MakeMention(transcript, variations[k], starts[j])], Len(starts))
             \o Candidates(transcript, variations, k + 1)

\* sorted(mentions, key=position) / mentions.sort(key=position): stable.
RECURSIVE InsertByPosition(_, _)
InsertByPosition(sorted, x) ==
    IF Len(sorted) = 0 THEN <<x>>
    ELSE IF sorted[Len(sorted)].position <= x.position THEN Append(sorted, x)
    ELSE Append(InsertByPosition(SubSeq(sorted, 1, Len(sorted) - 1), x),
                sorted[Len(sorted)])

RECURSIVE SortByPositionInto(_, _)
SortByPositionInto(items, acc) ==
    IF Len(items) = 0 THEN acc
    ELSE SortByPositionInto(Tail(items), InsertByPosition(acc, Head(items)))

SortByPosition(items) == SortByPositionInto(items, <<>>)

\* Mutant: only mentions that start inside the previous span are dropped.
RECURSIVE DedupIntoNoGap(_, _)
DedupIntoNoGap(rest, deduplicated) ==
    IF Len(rest) = 0 THEN deduplicated
    ELSE IF Head(rest).position < deduplicated[Len(deduplicated)].end_position
    THEN DedupIntoNoGap(Tail(rest), deduplicated)
    ELSE DedupIntoNoGap(Tail(rest), Append(deduplicated, Head(rest)))

\* mention_tracker.py 206-211: the loop over sorted_mentions[1:].
RECURSIVE DedupInto(_, _)
DedupInto(rest, deduplicated) ==
    IF Len(rest) = 0 THEN deduplicated
    ELSE IF Head(rest).position < deduplicated[Len(deduplicated)].end_position + DedupGap
    THEN DedupInto(Tail(rest), deduplicated)
    ELSE DedupInto(Tail(rest), Append(deduplicated, Head(rest)))

\* mention_tracker.py 186-213
deduplicate_mentions(ms) ==
    IF Len(ms) = 0 THEN <<>>
    ELSE LET sorted_mentions == SortByPosition(ms)
         IN  DedupInto(Tail(sorted_mentions), <<Head(sorted_mentions)>>)

\* mention_tracker.py 141-184
find_mentions(transcript, variations) ==
    SortByPosition(deduplicate_mentions(Candidates(transcript, variations, 1)))

\* mention_tracker.py 215-247: mentions wrapped from the last one to the first.
T_open == <<"[", "M", "E", "N", "T", "I", "O", "N", "]">>

T_close == <<"[", "/", "M", "E", "N", "T", "I", "O", "N", "]">>

RECURSIVE HighlightFrom(_, _, _)
HighlightFrom(highlighted, sorted_mentions, k) ==
    IF k = 0 THEN highlighted
    ELSE LET m == sorted_mentions[k]
             before == SubSeq(highlighted, 1, m.position)
             after == SubSeq(highlighted, m.end_position + 1, Len(highlighted))
         IN  HighlightFrom(before \o T_open \o m.matched_text \o T_close \o after,
                           sorted_mentions, k - 1)

build_highlighted_transcript(transcript, ms) ==
    IF Len(ms) = 0 THEN transcript
    ELSE HighlightFrom(transcript, SortByPosition(ms), Len(ms))

\* mention_tracker.py 269, 327-330: the sentence terminators [.!?].
Terminators == {".", "!", "?"}

\* mention_tracker.py 269-270: the length of the separator that
\* r'(?<=[.!?])\s+|\n+' matches at position p, 0 when it does not match.
SeparatorAt(s, p) ==
    IF p > 1 /\ s[p - 1] \in Terminators /\ RunLen(s, p, WhiteSpace) > 0
    THEN RunLen(s, p, WhiteSpace)
    ELSE RunLen(s, p, {"\n"})

\* re.split: the pieces between the separators, scanning at p the piece that
\* starts at start.
RECURSIVE SplitFrom(_, _, _)
SplitFrom(s, start, p) ==
    IF p > Len(s) THEN <<SubSeq(s, start, Len(s))>>
    ELSE IF SeparatorAt(s, p) > 0
    THEN <<SubSeq(s, start, p - 1)>>
         \o SplitFrom(s, p + SeparatorAt(s, p), p + SeparatorAt(s, p))
    ELSE SplitFrom(s, start, p + 1)

\* mention_tracker.py 272-302: the loop over raw_sentences from index k.
RECURSIVE SentencesFrom(_, _, _, _)
SentencesFrom(raw_sentences, k, current_pos, ms) ==
    IF k > Len(raw_sentences) THEN <<>>
    ELSE IF Len(Strip(raw_sentences[k])) = 0
    THEN SentencesFrom(raw_sentences, k + 1, current_pos + Len(raw_sentences[k]), ms)
    ELSE LET sentence_start == current_pos
             sentence_end == current_pos + Len(raw_sentences[k])
             Within(m) == sentence_start <= m.position /\ m.position < sentence_end
             sentence_mentions == SelectSeq(ms, Within)
             sentence_dict ==
                 [sentence |-> Strip(raw_sentences[k]),
                  position |-> sentence_start,
                  mention_count |-> Len(sentence_mentions),
                  mentions |->
                     [j \in 1..Len(sentence_mentions) |->
                        [text |-> sentence_mentions[j].matched_text,
                         variation |-> sentence_mentions[j].variation,
                         position_in_sentence |->
                            sentence_mentions[j].position - sentence_start]]]
         IN  (IF Len(sentence_mentions) = 0 THEN <<>> ELSE <<sentence_dict>>)
             \o SentencesFrom(raw_sentences, k + 1, sentence_end + 1, ms)

\* mention_tracker.py 249-304
extract_sentences_with_mentions(transcript, ms) ==
    SentencesFrom(SplitFrom(transcript, 1, 1), 1, 0, ms)

\* The words of the task patterns (mention_tracker.py 327-330).
PatternWord ==
    [can_you |-> <<"c", "a", "n", " ", "y", "o", "u">>,
     could_you |-> <<"c", "o", "u", "l", "d", " ", "y", "o", "u">>,
     will_you |-> <<"w", "i", "l", "l", " ", "y", "o", "u">>,
     would_you |-> <<"w", "o", "u", "l", "d", " ", "y", "o", "u">>,
     can_sp |-> <<"c", "a", "n", " ">>,
     can |-> <<"c", "a", "n">>,
     could |-> <<"c", "o", "u", "l", "d">>,
     will |-> <<"w", "i", "l", "l">>,
     would |-> <<"w", "o", "u", "l", "d">>,
     assign |-> <<"a", "s", "s", "i", "g", "n">>,
     assigned |-> <<"a", "s", "s", "i", "g", "n", "e", "d">>,
     assign_to |-> <<"a", "s", "s", "i", "g", "n", " ", "t", "o">>,
     give_to |-> <<"g", "i", "v", "e", " ", "t", "o">>,
     the |-> <<"t", "h", "e">>,
     task |-> <<"t", "a", "s", "k">>,
     to |-> <<"t", "o">>,
     needs_to |-> <<"n", "e", "e", "d", "s", " ", "t", "o">>,
     should |-> <<"s", "h", "o", "u", "l", "d">>,
     must |-> <<"m", "u", "s", "t">>,
     needs |-> <<"n", "e", "e", "d", "s">>,
     need |-> <<"n", "e", "e", "d">>]

\* \s+ in a task pattern; the other parts of a pattern are texts.
WS == <<"\\s+">>

\* mention_tracker.py 327: the first pattern as the list of its alternatives in
\* the order the regex tries them. The variations are joined with | inside an
\* alternation, so only the last one is followed by \s+(?:can|could|will|would).
task_pattern_1(vs) ==
    <<<<PatternWord.can_you, WS>>, <<PatternWord.could_you, WS>>, <<PatternWord.will_you, WS>>, <<PatternWord.would_you, WS>>>>
    \o [k \in 1..Len(vs) |-> <<PatternWord.can_sp \o vs[k], WS>>]
    \o [k \in 1..(Len(vs) - 1) |-> <<vs[k], WS>>]
    \o [a \in 1..4 |-> <<vs[Len(vs)], WS, <<PatternWord.can, PatternWord.could, PatternWord.will, PatternWord.would>>[a], WS>>]

\* mention_tracker.py 328: optional "the" and optional "to", taken when they match.
task_pattern_2(vs) ==
    Concat([h \in 1..4 |->
        Concat([k \in 1..Len(vs) |->
            LET head == <<<<PatternWord.assign, PatternWord.assigned, PatternWord.assign_to, PatternWord.give_to>>[h], WS, vs[k], WS>>
            IN  <<head \o <<PatternWord.the, WS, PatternWord.task, WS, PatternWord.to, WS>>,
                  head \o <<PatternWord.the, WS, PatternWord.task, WS>>,
                  head \o <<PatternWord.task, WS, PatternWord.to, WS>>,
                  head \o <<PatternWord.task, WS>>>>])])

\* mention_tracker.py 329
task_pattern_3(vs) ==
    Concat([k \in 1..Len(vs) |->
        [a \in 1..5 |->
            <<vs[k], WS, <<PatternWord.needs_to, PatternWord.should, PatternWord.will, PatternWord.can, PatternWord.must>>[a], WS>>]])

\* mention_tracker.py 330
task_pattern_4(vs) ==
    Concat([h \in 1..2 |->
        [k \in 1..Len(vs) |-> <<<<PatternWord.needs, PatternWord.need>>[h], WS, vs[k], WS, PatternWord.to, WS>>]])

\* mention_tracker.py 326-331
task_patterns(vs) ==
    <<task_pattern_1(vs), task_pattern_2(vs), task_pattern_3(vs), task_pattern_4(vs)>>

\* The positions behind the matches of the parts of `path`, started at one of
\* the positions P; \s+ takes any number of the blanks in front of it.
RECURSIVE PathEnds(_, _, _)
PathEnds(low, P, path) ==
    IF Len(path) = 0 \/ P = {} THEN P
    ELSE IF Head(path) = WS
    THEN PathEnds(low,
                  UNION {{p + n : n \in 1..RunLen(low, p, WhiteSpace)} : p \in P},
                  Tail(path))
    ELSE PathEnds(low,
                  {p + Len(Head(path)) : p \in {q \in P : HasAt(low, q, Head(path))}},
                  Tail(path))

\* Where group 1 starts when `path` matches at p (the closing \s+ is greedy
\* and (.+?) needs a character), 0 when it does not match.
GroupStart(low, p, path) ==
    IF Len(path[1]) > 0 /\ low[p] # path[1][1] THEN 0
    ELSE LET ends == {e \in PathEnds(low, {p}, path) : e <= Len(low)}
         IN  IF ends = {} THEN 0 ELSE Max(ends)

\* The characters of `low` a match of `pattern` can start with.
StartChars(low, pattern) ==
    IF \E i \in 1..Len(pattern) : Len(pattern[i][1]) = 0 THEN Range(low)
    ELSE {pattern[i][1][1] : i \in 1..Len(pattern)}

\* The start of group 1 for the first alternative of `pattern`, from the i-th
\* on, that matches at p; 0 when none does.
RECURSIVE PatternAt(_, _, _, _)
PatternAt(low, p, pattern, i) ==
    IF i > Len(pattern) THEN 0
    ELSE LET g == GroupStart(low, p, pattern[i])
         IN  IF g > 0 THEN g ELSE PatternAt(low, p, pattern, i + 1)

\* The leftmost match of `pattern` at or behind position p: the position and
\* the start of group 1, <<0, 0>> when there is none. A match starts with one
\* of the characters `starts`.
RECURSIVE PatternSearch(_, _, _, _)
PatternSearch(low, p, pattern, starts) ==
    IF p > Len(low) THEN <<0, 0>>
    ELSE IF low[p] \notin starts THEN PatternSearch(low, p + 1, pattern, starts)
    ELSE LET g == PatternAt(low, p, pattern, 1)
         IN  IF g > 0 THEN <<p, g>> ELSE PatternSearch(low, p + 1, pattern, starts)

\* mention_tracker.py 337-339: re.finditer(pattern, sentence_text, re.IGNORECASE)
\* from position `from`: group 1 of each match, (.+?) ending in front of the
\* first [.!?] or at the end of the text.
RECURSIVE TaskGroups(_, _, _, _, _)
TaskGroups(text, low, pattern, starts, from) ==
    LET found == PatternSearch(low, from, pattern, starts)
    IN  IF found[1] = 0 THEN <<>>
        ELSE LET g == found[2]
                 j == Min({i \in (g + 1)..(Len(low) + 1) :
                              i = Len(low) + 1 \/ low[i] \in Terminators})
             IN  <<SubSeq(text, g, j - 1)>>
                 \o TaskGroups(text, low, pattern, starts,
                               IF j <= Len(low) THEN j + 1 ELSE j)

\* mention_tracker.py 339-351: the tasks of the matches of one pattern.
TasksOfGroups(groups, name, sentence_text) ==
    LET Kept(group) == Len(Strip(group)) > 5
        kept == SelectSeq(groups, Kept)
    IN  [j \in 1..Len(kept) |->
            [task |-> Capitalize(Strip(kept[j])),
             assigned_to |-> name,
             source_sentence |-> sentence_text,
             confidence |-> "extracted"]]

\* mention_tracker.py 333-351: sentence by sentence, pattern by pattern.
AllTasks(sentences, name, vs) ==
    LET patterns == task_patterns(vs)
    IN  Concat([s \in 1..Len(sentences) |->
            LET sentence_text == sentences[s].sentence
                low == Lower(sentence_text)
            IN  Concat([i \in 1..Len(patterns) |->
                    TasksOfGroups(TaskGroups(sentence_text, low, patterns[i],
                                             StartChars(low, patterns[i]), 1),
                                  name, sentence_text)])])

\* Mutant: the texts are compared as written, not lower-cased.
RECURSIVE UniqueTasksCaseSensitive(_, _, _)
UniqueTasksCaseSensitive(tasks, seen, unique_tasks) ==
    IF Len(tasks) = 0 THEN unique_tasks
    ELSE IF Head(tasks).task \in seen
    THEN UniqueTasksCaseSensitive(Tail(tasks), seen, unique_tasks)
    ELSE UniqueTasksCaseSensitive(Tail(tasks), seen \cup {Head(tasks).task},
                                  Append(unique_tasks, Head(tasks)))

\* mention_tracker.py 353-360: the first task of each lower-cased text.
RECURSIVE UniqueTasks(_, _, _)
UniqueTasks(tasks, seen, unique_tasks) ==
    IF Len(tasks) = 0 THEN unique_tasks
    ELSE IF Lower(Head(tasks).task) \in seen
    THEN UniqueTasks(Tail(tasks), seen, unique_tasks)
    ELSE UniqueTasks(Tail(tasks), seen \cup {Lower(Head(tasks).task)},
                     Append(unique_tasks, Head(tasks)))

\* mention_tracker.py 306-362
extract_task_assignments(sentences, name, vs) ==
    UniqueTasks(AllTasks(sentences, name, vs), {}, <<>>)

\* dict.get(key, default)
Get(dict, key, default) == IF key \in DOMAIN dict THEN dict[key] ELSE default

\* mention_tracker.py 387: `variation in speaker`
InText(w, s) == Len(w) = 0 \/ Contains(s, w)

\* mention_tracker.py 381-398: the speaker mention of a segment, if any.
SpeakerMentionOf(segment, vs) ==
    IF /\ Len(Get(segment, "speaker", <<>>)) > 0
       /\ \E k \in 1..Len(vs) : InText(vs[k], Lower(segment.speaker))
    THEN <<[segment_index |-> Get(segment, "index", 0),
            speaker |-> segment.speaker,
            text |-> Get(segment, "text", ""),
            start_time |-> Get(segment, "start", 0),
            end_time |-> Get(segment, "end", 0),
            mention_type |-> "speaker"]>>
    ELSE <<>>

\* mention_tracker.py 364-400
get_speaker_mentions(segs, vs) ==
    Concat([k \in 1..Len(segs) |-> SpeakerMentionOf(segs[k], vs)])

\* mention_tracker.py 107: datetime.now().isoformat(), whatever the clock shows.
Clock == {"2024-01-01T10:00:00", "2024-01-01T10:00:01"}

NoResult == [none |-> TRUE]

\* An entry of the segment list that is no dictionary (None, a string):
\* segment.get raises AttributeError on it.
NotADict == [not_a_dict |-> TRUE]

IsDict(segment) == "not_a_dict" \notin DOMAIN segment

\* The call ends with an exception that reaches the caller.
Raised == [none |-> TRUE, raised |-> TRUE]

\* mention_tracker.py 379-380, personal_insights.py 125-126: the loop over the
\* segments raises at the first entry without a get method.
SegmentLoopRaises(segs) == \E k \in 1..Len(segs) : ~IsDict(segs[k])

\* mention_tracker.py 56-65: the guard, the strip and the name variations.
TrackStart ==
    /\ t_pc = "start"
    /\ IF Len(username) = 0 \/ Len(full_transcript) = 0
       THEN /\ track_result' = NoResult
            /\ t_pc' = "done"
            /\ UNCHANGED <<t_username, name_variations>>
       ELSE /\ t_username' = Strip(username)
            /\ name_variations' \in generate_name_variations(Strip(username))
            /\ t_pc' = "find"
            /\ UNCHANGED track_result
    /\ UNCHANGED <<trackArgs, mentions, alignVars, hostVars, extractVars, insightVars>>

\* Mutant: the report is compiled even when nothing was found.
TrackFindNoCheck ==
    /\ t_pc = "find"
    /\ mentions' = find_mentions(full_transcript, name_variations)
    /\ t_pc' = "compile"
    /\ UNCHANGED <<track_result, trackArgs, t_username, name_variations,
                   alignVars, hostVars, extractVars, insightVars>>

\* mention_tracker.py 67-73: the search; no mention, no result.
TrackFind ==
    /\ t_pc = "find"
    /\ mentions' = find_mentions(full_transcript, name_variations)
    /\ IF Len(mentions') = 0
       THEN t_pc' = "done" /\ track_result' = NoResult
       ELSE t_pc' = "compile" /\ UNCHANGED track_result
    /\ UNCHANGED <<trackArgs, t_username, name_variations, alignVars, hostVars, extractVars, insightVars>>

\* mention_tracker.py 75-109: the report for the variations vs and the
\* mentions ms, before the time stamp is set.
compile_report(vs, ms) ==
    LET sentences_with_mentions ==
            extract_sentences_with_mentions(full_transcript, ms)
    IN  [none |-> FALSE,
         username |-> t_username,
         highlight_transcript |-> build_highlighted_transcript(full_transcript, ms),
         mention_count |-> Len(ms),
         mentions |-> ms,
         sentences_with_mentions |-> sentences_with_mentions,
         sentence_count |-> Len(sentences_with_mentions),
         assigned_tasks |->
             extract_task_assignments(sentences_with_mentions, t_username, vs),
         speaker_mentions |->
             IF diarization_available
             THEN get_speaker_mentions(segments, vs)
             ELSE <<>>,
         tracked_at |-> "",
         tracking_status |-> "success"]

\* TrackCompile without the except clause of mention_tracker.py 114-116.
TrackCompileUncaught ==
    /\ t_pc = "compile"
    /\ IF diarization_available /\ SegmentLoopRaises(segments)
       THEN track_result' = Raised
       ELSE LET result == compile_report(name_variations, mentions)
            IN  \E now \in Clock : track_result' = [result EXCEPT !.tracked_at = now]
    /\ t_pc' = "done"
    /\ UNCHANGED <<trackArgs, t_username, name_variations, mentions,
                   alignVars, hostVars, extractVars, insightVars>>

\* mention_tracker.py 75-116: the report, or None if _get_speaker_mentions
\* raised.
TrackCompile ==
    /\ t_pc = "compile"
    /\ IF diarization_available /\ SegmentLoopRaises(segments)
       THEN track_result' = NoResult
       ELSE LET result == compile_report(name_variations, mentions)
            IN  \E now \in Clock : track_result' = [result EXCEPT !.tracked_at = now]
    /\ t_pc' = "done"
    /\ UNCHANGED <<trackArgs, t_username, name_variations, mentions,
                   alignVars, hostVars, extractVars, insightVars>>

(***************************************************************************)
(* Personal insights (personal_insights.py).                               *)
(***************************************************************************)
\* personal_insights.py 164-180: the variations, as the set whose list is
\* returned (the callers only ask whether some variation matches).
personal_name_variations(name) ==
    LET parts == SplitWords(name)
        initials == AsSeq([k \in 1..Len(parts) |-> parts[k][1]], Len(parts))
    IN  {Lower(name)}
        \cup (IF Len(parts) > 1 THEN {Lower(parts[1])} ELSE {})
        \cup (IF Len(initials) > 0 THEN {Lower(initials)} ELSE {})

\* personal_insights.py 182-200: re.search(r'\b' + re.escape(variation) + r'\b', text.lower())
contains_name_mention(text, variations) ==
    LET text_lower == Lower(text)
    IN  \E variation \in variations :
            \E p \in 1..(Len(text_lower) + 1) : VariationAt(text_lower, p, variation)

\* personal_insights.py 202-217: `name_lower in speaker_lower`
is_user_speaker(speaker_label, name_lower) == InText(name_lower, Lower(speaker_label))

\* Mutant: the text is searched before the speaker label is looked at.
MatchReasonTextFirst(segment, name, available) ==
    IF contains_name_mention(Strip(Get(segment, "text", <<>>)),
                             personal_name_variations(name))
    THEN "name_mention"
    ELSE IF available
            /\ is_user_speaker(Lower(Get(segment, "speaker", <<>>)), Lower(name))
    THEN "speaker_match"
    ELSE "None"

\* personal_insights.py 123-138: the strategy that matches the segment.
MatchReason(segment, name, available) ==
    IF available
       /\ is_user_speaker(Lower(Get(segment, "speaker", <<>>)), Lower(name))
    THEN "speaker_match"
    ELSE IF contains_name_mention(Strip(Get(segment, "text", <<>>)),
                                  personal_name_variations(name))
    THEN "name_mention"
    ELSE "None"

\* personal_insights.py 119-148: the loop over the segments.
RECURSIVE PersonalSegments(_, _, _, _, _)
PersonalSegments(segs, name, available, seen_texts, matched) ==
    IF Len(segs) = 0 THEN matched
    ELSE LET segment == Head(segs)
             segment_text == Strip(Get(segment, "text", <<>>))
             match_reason == MatchReason(segment, name, available)
         IN  IF \/ Len(segment_text) = 0
                \/ match_reason = "None"
                \/ segment_text \in seen_texts
             THEN PersonalSegments(Tail(segs), name, available, seen_texts, matched)
             ELSE PersonalSegments(Tail(segs), name, available,
                                   seen_texts \cup {segment_text},
                                   Append(matched,
                                          ("match_reason" :> match_reason) @@ segment))

\* " ".join(texts)
RECURSIVE JoinBySpace(_)
JoinBySpace(texts) ==
    IF Len(texts) = 0 THEN <<>>
    ELSE IF Len(texts) = 1 THEN Head(texts)
    ELSE Head(texts) \o <<" ">> \o JoinBySpace(Tail(texts))

\* personal_insights.py 100-162
extract_personal_transcript(name, segs, available) ==
    LET matched == PersonalSegments(segs, name, available, {}, <<>>)
        texts == AsSeq([k \in 1..Len(matched) |-> Get(matched[k], "text", <<>>)],
                       Len(matched))
    IN  [text |-> Strip(JoinBySpace(texts)), segments |-> matched]

\* summarization.py 26: the parameters of SummarizationService.summarize.
SummarizeParameters == {"text", "max_length"}

\* summarization.py 26-44: the dictionary summarize returns, or its exception
\* (the pipeline's, or the division by len(summary) = 0).
summarize(call, reply) ==
    IF reply.raises \/ Len(reply.summary_text) = 0
    THEN [raises |-> TRUE, summary |-> <<>>]
    ELSE [raises |-> FALSE, summary |-> reply.summary_text]

\* personal_insights.py 235: f"Summary for {user_name}'s involvement in the meeting:\n"
context_prompt(name) ==
    <<"S", "u", "m", "m", "a", "r", "y", " ", "f", "o", "r", " ">>
    \o name \o
    <<"'", "s", " ", "i", "n", "v", "o", "l", "v", "e", "m", "e", "n", "t", " ", "i", "n", " ", "t", "h", "e", " ", "m", "e", "e", "t", "i", "n", "g", ":", "\n">>

\* personal_insights.py 219-256: the summary, and the calls that reached the
\* collaborator. A call with a keyword that summarize does not declare raises
\* TypeError before the collaborator runs; every exception gives "".
generate_personal_summary(transcript, name, reply) ==
    IF Len(transcript) = 0 \/ Len(transcript) < 10
    THEN [summary |-> <<>>, calls |-> <<>>]
    ELSE LET call == [text |-> transcript, max_length |-> 150, min_length |-> 30]
         IN  IF ~(DOMAIN call \subseteq SummarizeParameters)
             THEN [summary |-> <<>>, calls |-> <<>>]
             ELSE LET summary_result == summarize(call, reply)
                  IN  [summary |->
                           IF summary_result.raises \/ Len(summary_result.summary) = 0
                           THEN <<>>
                           ELSE context_prompt(name) \o summary_result.summary,
                       calls |-> <<call>>]

\* Mutant: an item is relevant only if its assignee matches.
IsRelevantAssigneeOnly(item, variations, personal_transcript_lower) ==
    LET assignee == Lower(Get(item, "assignee", <<>>))
    IN  Len(assignee) > 0 /\ \E variation \in variations : InText(variation, assignee)

\* personal_insights.py 279-298: is the item relevant to the user.
IsRelevant(item, variations, personal_transcript_lower) ==
    LET assignee == Lower(Get(item, "assignee", <<>>))
        task_text == Lower(Get(item, "task", <<>>))
        context == Lower(Get(item, "context", <<>>))
    IN  \/ Len(assignee) > 0 /\ \E variation \in variations : InText(variation, assignee)
        \/ Len(task_text) > 0 /\ InText(task_text, personal_transcript_lower)
        \/ Len(context) > 0 /\ InText(context, personal_transcript_lower)

\* personal_insights.py 258-304
extract_personal_action_items(name, items, transcript) ==
    LET Relevant(item) ==
            IsRelevant(item, personal_name_variations(name), Lower(transcript))
    IN  SelectSeq(items, Relevant)

\* InsightsStart without the test of personal_insights.py 62-64: an empty
\* personal transcript goes on to the summary and the bundle.
InsightsStartNoCheck ==
    /\ p_pc = "start"
    /\ IF Len(user_name) = 0 \/ Len(Strip(user_name)) = 0
       THEN /\ insights' = NoResult
            /\ p_pc' = "done"
            /\ UNCHANGED <<personal_transcript, personal_segments>>
       ELSE LET found == extract_personal_transcript(user_name, p_segments,
                                                     p_diarization_available)
            IN  IF SegmentLoopRaises(p_segments)
                THEN /\ insights' = NoResult
                     /\ p_pc' = "done"
                     /\ UNCHANGED <<personal_transcript, personal_segments>>
                ELSE /\ personal_transcript' = found.text
                     /\ personal_segments' = found.segments
                     /\ p_pc' = "summary"
                     /\ UNCHANGED insights
    /\ UNCHANGED <<insightArgs, personal_summary, summarize_calls,
                   alignVars, hostVars, extractVars, trackVars>>

\* personal_insights.py 50-64 and 93-98: the guard, the personal transcript,
\* None if it is empty or if the loop over the segments raised.
InsightsStart ==
    /\ p_pc = "start"
    /\ IF Len(user_name) = 0 \/ Len(Strip(user_name)) = 0
       THEN /\ insights' = NoResult
            /\ p_pc' = "done"
            /\ UNCHANGED <<personal_transcript, personal_segments>>
       ELSE LET found == extract_personal_transcript(user_name, p_segments,
                                                     p_diarization_available)
            IN  IF SegmentLoopRaises(p_segments)
                THEN /\ insights' = NoResult
                     /\ p_pc' = "done"
                     /\ UNCHANGED <<personal_transcript, personal_segments>>
                ELSE /\ personal_transcript' = found.text
                     /\ personal_segments' = found.segments
                     /\ IF Len(found.text) = 0
                        THEN insights' = NoResult /\ p_pc' = "done"
                        ELSE p_pc' = "summary" /\ UNCHANGED insights
    /\ UNCHANGED <<insightArgs, personal_summary, summarize_calls,
                   alignVars, hostVars, extractVars, trackVars>>

\* personal_insights.py 66-69
InsightsSummary ==
    /\ p_pc = "summary"
    /\ LET made == generate_personal_summary(personal_transcript, user_name,
                                             summarizer_reply)
       IN  /\ personal_summary' = made.summary
           /\ summarize_calls' = made.calls
    /\ p_pc' = "tasks"
    /\ UNCHANGED <<insightArgs, personal_transcript, personal_segments, insights,
                   alignVars, hostVars, extractVars, trackVars>>

\* personal_insights.py 71-91: the action items and the bundle.
InsightsCompile ==
    /\ p_pc = "tasks"
    /\ LET personal_action_items ==
               extract_personal_action_items(user_name, p_action_items,
                                             personal_transcript)
       IN  insights' = [none |-> FALSE,
                        name |-> user_name,
                        personal_summary |-> personal_summary,
                        personal_transcript |-> personal_transcript,
                        personal_segments |-> personal_segments,
                        assigned_tasks |-> personal_action_items,
                        transcript_coverage |-> Len(personal_segments),
                        action_items_count |-> Len(personal_action_items)]
    /\ p_pc' = "done"
    /\ UNCHANGED <<insightArgs, personal_transcript, personal_segments,
                   personal_summary, summarize_calls,
                   alignVars, hostVars, extractVars, trackVars>>

\* api.py 105-114: after the personal insights, track_mentions is called with
\* the same name, transcript, segments and flag, if the name is not empty.
ApiTrackMentions ==
    /\ p_pc = "done"
    /\ t_pc = "idle"
    /\ Len(user_name) > 0
    /\ username' = user_name
    /\ full_transcript' = p_full_transcript
    /\ segments' = p_segments
    /\ diarization_available' = p_diarization_available
    /\ t_pc' = "start"
    /\ UNCHANGED <<t_username, name_variations, mentions, track_result,
                   insightVars, alignVars, hostVars, extractVars>>

(***************************************************************************)
(* The upload request (api.py upload_meeting).                             *)
(***************************************************************************)
\* config.py 26
ALLOWED_AUDIO_FORMATS == {".wav", ".mp3", ".m4a", ".flac", ".ogg"}

\* api.py 90, 106: `if user_name:` for the query parameter, None by default.
NameGiven(name) == name.given /\ name.value # ""

\* The steps the handler marks as required, and the optional ones.
RequiredSteps == {"transcribe", "merge", "summarize", "extract"}

OptionalSteps == {"diarize", "insights", "mentions"}

\* api.py 135-137: an exception raised inside the try block at the given step
\* is answered with HTTPException(status_code=500).
Except(step) ==
    /\ raised_at' = step
    /\ status_code' = 500
    /\ u_pc' = "done"
    /\ UNCHANGED <<returned, swallowed, cleanup_scheduled>>

\* The step returned and the handler goes on.
Returns(step, next) ==
    /\ returned' = returned \cup {step}
    /\ u_pc' = next
    /\ UNCHANGED <<raised_at, status_code, cleanup_scheduled>>

\* api.py 44-50: the extension test; its HTTPException(400) is raised inside
\* the try block and HTTPException is an Exception.
ApiCheckFormat ==
    /\ u_pc = "check"
    /\ IF file_ext \notin ALLOWED_AUDIO_FORMATS
       THEN Except("format")
       ELSE Returns("format", "save")
    /\ UNCHANGED <<file_ext, query_user_name, file_on_disk, swallowed,
                   diarization_result, personal_insights, mention_tracking,
                   alignVars, extractVars, trackVars, insightVars, diarVars>>

\* api.py 52-54, file_handler.py 19-48: the file is written; a file that is
\* too large is removed again before the ValueError, a failing read or write
\* leaves what was written.
ApiSaveUpload ==
    /\ u_pc = "save"
    /\ \E outcome \in {"saved", "too_large", "write_error"} :
          /\ file_on_disk' = (outcome # "too_large")
          /\ IF outcome = "saved" THEN Returns("save", "load") ELSE Except("save")
    /\ UNCHANGED <<file_ext, query_user_name, swallowed, diarization_result,
                   personal_insights, mention_tracking,
                   alignVars, extractVars, trackVars, insightVars, diarVars>>

\* A call whose exception nothing catches before the except clause of the
\* handler: it returns or it raises.
Call(step, next) ==
    /\ \E ok \in BOOLEAN : IF ok THEN Returns(step, next) ELSE Except(step)
    /\ UNCHANGED <<file_ext, query_user_name, file_on_disk, swallowed,
                   diarization_result, personal_insights, mention_tracking,
                   alignVars, extractVars, trackVars, insightVars, diarVars>>

\* api.py 57, audio_processing.py 15-27: load_audio re-raises.
ApiLoadAudio ==
    /\ u_pc = "load"
    /\ Call("load", "transcribe")

\* api.py 61, transcription.py 16-41: transcribe re-raises.
ApiTranscribe ==
    /\ u_pc = "transcribe"
    /\ Call("transcribe", "diarize")

\* ApiDiarize with a diarize that lets its exception out.
ApiDiarizeRaises ==
    /\ u_pc = "diarize"
    /\ \E outcome \in {"segments", "empty", "error"} :
          IF outcome = "error"
          THEN Except("diarize") /\ UNCHANGED diarization_result
          ELSE Returns("diarize", "merge") /\ diarization_result' = outcome
    /\ UNCHANGED <<file_ext, query_user_name, file_on_disk, swallowed,
                   personal_insights, mention_tracking,
                   alignVars, extractVars, trackVars, insightVars, diarVars>>

\* api.py 65, diarization.py 90-135: diarize returns the speaker segments, or
\* [] if there are none, the file is missing, the pipeline is not loaded or an
\* exception was caught.
ApiDiarize ==
    /\ u_pc = "diarize"
    /\ \E outcome \in {"segments", "empty", "error"} :
          /\ diarization_result' = IF outcome = "error" THEN "empty" ELSE outcome
          /\ swallowed' = IF outcome = "error" THEN swallowed \cup {"diarize"}
                          ELSE swallowed
    /\ Returns("diarize", "merge")
    /\ UNCHANGED <<file_ext, query_user_name, file_on_disk,
                   personal_insights, mention_tracking,
                   alignVars, extractVars, trackVars, insightVars, diarVars>>

\* api.py 73-75: merge_transcription_diarization has no handler of its own.
ApiMerge ==
    /\ u_pc = "merge"
    /\ Call("merge", "summarize")

\* api.py 79-81, summarization.py 26-48: summarize re-raises.
ApiSummarize ==
    /\ u_pc = "summarize"
    /\ Call("summarize", "extract")

\* api.py 85-87, action_items.py 31-68: extract re-raises.
ApiExtract ==
    /\ u_pc = "extract"
    /\ Call("extract", "insights")

\* api.py 89-103: extract_personal_insights is called if user_name is truthy;
\* it returns a bundle, or None (also when it caught an exception).
ApiPersonalInsights ==
    /\ u_pc = "insights"
    /\ IF NameGiven(query_user_name)
       THEN \E outcome \in {"bundle", "null", "error"} :
               /\ personal_insights' = IF outcome = "error" THEN "null" ELSE outcome
               /\ swallowed' = IF outcome = "error"
                               THEN swallowed \cup {"insights"} ELSE swallowed
       ELSE UNCHANGED <<personal_insights, swallowed>>
    /\ Returns("insights", "mentions")
    /\ UNCHANGED <<file_ext, query_user_name, file_on_disk, diarization_result,
                   mention_tracking,
                   alignVars, extractVars, trackVars, insightVars, diarVars>>

\* api.py 105-118: track_mentions is called if user_name is truthy; it returns
\* a report, or None (also when it caught an exception).
ApiMentionTracking ==
    /\ u_pc = "mentions"
    /\ IF NameGiven(query_user_name)
       THEN \E outcome \in {"report", "null", "error"} :
               /\ mention_tracking' = IF outcome = "error" THEN "null" ELSE outcome
               /\ swallowed' = IF outcome = "error"
                               THEN swallowed \cup {"mentions"} ELSE swallowed
       ELSE UNCHANGED <<mention_tracking, swallowed>>
    /\ Returns("mentions", "respond")
    /\ UNCHANGED <<file_ext, query_user_name, file_on_disk, diarization_result,
                   personal_insights,
                   alignVars, extractVars, trackVars, insightVars, diarVars>>

\* api.py 120-133: the response is built, cleanup_file is handed to the
\* background tasks and the response is returned.
ApiRespond ==
    /\ u_pc = "respond"
    /\ cleanup_scheduled' = TRUE
    /\ status_code' = 200
    /\ returned' = returned \cup {"respond"}
    /\ u_pc' = "done"
    /\ UNCHANGED <<file_ext, query_user_name, file_on_disk, swallowed, raised_at,
                   diarization_result, personal_insights, mention_tracking,
                   alignVars, extractVars, trackVars, insightVars, diarVars>>

\* file_handler.py 50-60: the background task unlinks the file after the
\* response was sent.
ApiCleanupFile ==
    /\ u_pc = "done"
    /\ cleanup_scheduled
    /\ file_on_disk
    /\ file_on_disk' = FALSE
    /\ UNCHANGED <<u_pc, file_ext, query_user_name, cleanup_scheduled, returned,
                   swallowed, raised_at, status_code, diarization_result,
                   personal_insights, mention_tracking,
                   alignVars, extractVars, trackVars, insightVars, diarVars>>

(***************************************************************************)
(* The diarization service (diarization.py), called from several threads.  *)
(***************************************************************************)
Callers == 1..MaxCallers

Devices == {"cpu", "cuda"}

\* The caller goes to the given position.
Goto(t, position) == d_pc' = [d_pc EXCEPT ![t] = position]

\* diarization.py 98, 104, 108, 135: diarize returns [].
ReturnEmpty(t) ==
    /\ diarized' = [diarized EXCEPT ![t] = "empty"]
    /\ Goto(t, "returned")

restOfVars == <<alignVars, extractVars, trackVars, insightVars, uploadVars>>

\* diarization.py 23: the first test of __new__.
NewCheck(t) ==
    /\ d_pc[t] = "new"
    /\ Goto(t, IF instance = 0 THEN "new_lock" ELSE "new_return")
    /\ UNCHANGED <<instance, lock, initialized, pipeline, device, is_loading,
                   hf_token, created, init_count, load_count, obtained, diarized,
                   restOfVars>>

\* diarization.py 24: with cls._lock.
NewAcquire(t) ==
    /\ d_pc[t] = "new_lock"
    /\ lock = 0
    /\ lock' = t
    /\ Goto(t, "new_inner")
    /\ UNCHANGED <<instance, initialized, pipeline, device, is_loading,
                   hf_token, created, init_count, load_count, obtained, diarized,
                   restOfVars>>

\* diarization.py 25-26: the second test, the object, the end of the with block.
NewCreate(t) ==
    /\ d_pc[t] = "new_inner"
    /\ IF instance = 0
       THEN created' = created + 1 /\ instance' = created + 1
       ELSE UNCHANGED <<created, instance>>
    /\ lock' = 0
    /\ Goto(t, "new_return")
    /\ UNCHANGED <<initialized, pipeline, device, is_loading,
                   hf_token, init_count, load_count, obtained, diarized,
                   restOfVars>>

\* diarization.py 27: return cls._instance.
NewReturn(t) ==
    /\ d_pc[t] = "new_return"
    /\ obtained' = [obtained EXCEPT ![t] = instance]
    /\ Goto(t, "init")
    /\ UNCHANGED <<instance, lock, initialized, pipeline, device, is_loading,
                   hf_token, created, init_count, load_count, diarized,
                   restOfVars>>

\* diarization.py 30: the first test of __init__.
InitCheck(t) ==
    /\ d_pc[t] = "init"
    /\ Goto(t, IF initialized THEN "constructed" ELSE "init_lock")
    /\ UNCHANGED <<instance, lock, initialized, pipeline, device, is_loading,
                   hf_token, created, init_count, load_count, obtained, diarized,
                   restOfVars>>

\* diarization.py 31: with DiarizationService._lock.
InitAcquire(t) ==
    /\ d_pc[t] = "init_lock"
    /\ lock = 0
    /\ lock' = t
    /\ Goto(t, "init_inner")
    /\ UNCHANGED <<instance, initialized, pipeline, device, is_loading,
                   hf_token, created, init_count, load_count, obtained, diarized,
                   restOfVars>>

\* InitRecheck without the second test of line 32.
InitNoRecheck(t) ==
    /\ d_pc[t] = "init_inner"
    /\ Goto(t, "init_pipeline")
    /\ UNCHANGED <<instance, lock, initialized, pipeline, device, is_loading,
                   hf_token, created, init_count, load_count, obtained, diarized,
                   restOfVars>>

\* diarization.py 32: the second test, under the lock.
InitRecheck(t) ==
    /\ d_pc[t] = "init_inner"
    /\ IF initialized
       THEN lock' = 0 /\ Goto(t, "constructed")
       ELSE UNCHANGED lock /\ Goto(t, "init_pipeline")
    /\ UNCHANGED <<instance, initialized, pipeline, device, is_loading,
                   hf_token, created, init_count, load_count, obtained, diarized,
                   restOfVars>>

\* diarization.py 33: self.pipeline = None.
InitPipeline(t) ==
    /\ d_pc[t] = "init_pipeline"
    /\ pipeline' = "none"
    /\ init_count' = init_count + 1
    /\ Goto(t, "init_device")
    /\ UNCHANGED <<instance, lock, initialized, device, is_loading,
                   hf_token, created, load_count, obtained, diarized,
                   restOfVars>>

\* diarization.py 34, 39-47: self.device = self._get_device().
InitDevice(t) ==
    /\ d_pc[t] = "init_device"
    /\ device' \in Devices
    /\ Goto(t, "init_loading")
    /\ UNCHANGED <<instance, lock, initialized, pipeline, is_loading,
                   hf_token, created, init_count, load_count, obtained, diarized,
                   restOfVars>>

\* diarization.py 35: self._is_loading = False.
InitLoading(t) ==
    /\ d_pc[t] = "init_loading"
    /\ is_loading' = "false"
    /\ Goto(t, "init_flag")
    /\ UNCHANGED <<instance, lock, initialized, pipeline, device,
                   hf_token, created, init_count, load_count, obtained, diarized,
                   restOfVars>>

\* diarization.py 36-37: _initialized = True, the end of the with block.
InitFlag(t) ==
    /\ d_pc[t] = "init_flag"
    /\ initialized' = TRUE
    /\ lock' = 0
    /\ Goto(t, "constructed")
    /\ UNCHANGED <<instance, pipeline, device, is_loading,
                   hf_token, created, init_count, load_count, obtained, diarized,
                   restOfVars>>

\* diarization.py 96-98: the caller that holds the instance calls diarize;
\* a missing file gives [].
Diarize(t) ==
    /\ d_pc[t] = "constructed"
    /\ \E exists \in BOOLEAN :
          IF exists
          THEN Goto(t, "load_check") /\ UNCHANGED diarized
          ELSE ReturnEmpty(t)
    /\ UNCHANGED <<instance, lock, initialized, pipeline, device, is_loading,
                   hf_token, created, init_count, load_count, obtained,
                   restOfVars>>

\* diarization.py 54-55: a loaded pipeline is used as it is; an instance
\* without the attribute raises AttributeError, which diarize catches (129).
LoadCheck(t) ==
    /\ d_pc[t] = "load_check"
    /\ IF pipeline = "unset" THEN ReturnEmpty(t)
       ELSE /\ Goto(t, IF pipeline = "none" THEN "load_flag" ELSE "run")
            /\ UNCHANGED diarized
    /\ UNCHANGED <<instance, lock, initialized, pipeline, device, is_loading,
                   hf_token, created, init_count, load_count, obtained,
                   restOfVars>>

\* diarization.py 57-59: a load in progress makes _load_pipeline return False.
LoadFlagCheck(t) ==
    /\ d_pc[t] = "load_flag"
    /\ IF is_loading = "false"
       THEN Goto(t, "load_token") /\ UNCHANGED diarized
       ELSE ReturnEmpty(t)
    /\ UNCHANGED <<instance, lock, initialized, pipeline, device, is_loading,
                   hf_token, created, init_count, load_count, obtained,
                   restOfVars>>

\* diarization.py 61-66: no HF_TOKEN, no pipeline.
LoadToken(t) ==
    /\ d_pc[t] = "load_token"
    /\ IF hf_token
       THEN Goto(t, "load_set") /\ UNCHANGED diarized
       ELSE ReturnEmpty(t)
    /\ UNCHANGED <<instance, lock, initialized, pipeline, device, is_loading,
                   hf_token, created, init_count, load_count, obtained,
                   restOfVars>>

\* diarization.py 69: self._is_loading = True.
LoadSet(t) ==
    /\ d_pc[t] = "load_set"
    /\ is_loading' = "true"
    /\ Goto(t, "load_model")
    /\ UNCHANGED <<instance, lock, initialized, pipeline, device,
                   hf_token, created, init_count, load_count, obtained, diarized,
                   restOfVars>>

\* diarization.py 72-77: Pipeline.from_pretrained returns the pipeline, which
\* is assigned, or raises.
LoadModel(t) ==
    /\ d_pc[t] = "load_model"
    /\ \E ok \in BOOLEAN :
          IF ok
          THEN /\ pipeline' = "loaded"
               /\ load_count' = load_count + 1
               /\ Goto(t, "load_to")
          ELSE /\ UNCHANGED <<pipeline, load_count>>
               /\ Goto(t, "finally_false")
    /\ UNCHANGED <<instance, lock, initialized, device, is_loading,
                   hf_token, created, init_count, obtained, diarized,
                   restOfVars>>

\* diarization.py 80-86: pipeline.to(device) returns (return True) or raises
\* (return False).
LoadTo(t) ==
    /\ d_pc[t] = "load_to"
    /\ \E ok \in BOOLEAN : Goto(t, IF ok THEN "finally_true" ELSE "finally_false")
    /\ UNCHANGED <<instance, lock, initialized, pipeline, device, is_loading,
                   hf_token, created, init_count, load_count, obtained, diarized,
                   restOfVars>>

\* diarization.py 87-88, 102-104: finally self._is_loading = False; diarize
\* goes on if _load_pipeline returned True.
LoadFinally(t) ==
    /\ d_pc[t] \in {"finally_true", "finally_false"}
    /\ is_loading' = "false"
    /\ IF d_pc[t] = "finally_true"
       THEN Goto(t, "run") /\ UNCHANGED diarized
       ELSE ReturnEmpty(t)
    /\ UNCHANGED <<instance, lock, initialized, pipeline, device,
                   hf_token, created, init_count, load_count, obtained,
                   restOfVars>>

\* diarization.py 106-135: the pipeline runs and its turns are returned; no
\* pipeline, no turn or an exception gives [].
RunPipeline(t) ==
    /\ d_pc[t] = "run"
    /\ IF pipeline = "loaded"
       THEN \E outcome \in {"segments", "empty"} :
               /\ diarized' = [diarized EXCEPT ![t] = outcome]
               /\ Goto(t, "returned")
       ELSE ReturnEmpty(t)
    /\ UNCHANGED <<instance, lock, initialized, pipeline, device, is_loading,
                   hf_token, created, init_count, load_count, obtained,
                   restOfVars>>

(***************************************************************************)
(* Inputs of the mention tracker.                                          *)
(***************************************************************************)
\* The names and the pieces of the transcripts.
Token ==
    [Al |-> <<"A", "l">>,
     AlBo |-> <<"A", "l", " ", "B", "o">>,
     ab |-> <<"a", "b">>,
     sp |-> <<" ">>,
     stop |-> <<".", " ">>,
     gap |-> <<" ", "u", "v", "w", "x", "y", " ">>,
     ask |-> <<",", " ", "c", "a", "n", " ", "y", "o", "u", " ", "r", "e", "v", "i", "e", "w", " ", "t", "h", "e", " ", "d", "e", "c", "k", "?">>,
     deck |-> <<"R", "e", "v", "i", "e", "w", " ", "t", "h", "e", " ", "d", "e", "c", "k">>]

\* Empty, blank, one word, two words with a blank to strip.
Usernames == {<<>>, Token.sp, Token.Al, Token.sp \o Token.AlBo}

TrackVocab == {Token.Al, Token.AlBo, Token.ab, Token.sp, Token.stop, Token.gap}

Transcripts == {Concat(ts) : ts \in SeqsUpTo(TrackVocab, MaxTokens)}

\* Transcripts of a meeting in which tasks are handed out.
SpokenTranscripts ==
    {Token.Al \o Token.ask,
     Token.AlBo \o Token.ask,
     <<"A", "l", " ", "w", "i", "l", "l", " ", "r", "e", "v", "i", "e", "w", " ", "i", "t", ".", " ", "A", "l", " ", "B", "o", " ", "w", "i", "l", "l", " ", "R", "E", "V", "I", "E", "W", " ", "i", "t", "!", "\n", "\n", "a", "b", " ", "n", "e", "e", "d", "s", " ", "A", "l", " ", "t", "o", " ", "a", "b", ".", " ", " ", "A", "l", " ", "m", "u", "s", "t", " ", "r", "e", "v", "i", "s", "e", " ", "e", "v", "e", "r", "y", "t", "h", "i", "n", "g">>,
     <<"p", "l", "e", "a", "s", "e", " ", "a", "s", "s", "i", "g", "n", " ", "A", "l", " ", "B", "o", " ", "t", "h", "e", " ", "t", "a", "s", "k", " ", "t", "o", " ", "r", "e", "v", "i", "e", "w", " ", "i", "t", "?", " ", " ", "g", "i", "v", "e", " ", "t", "o", " ", "a", "b", " ", "t", "a", "s", "k", " ", "a", "b">>,
     <<"C", "a", "n", " ", "A", "l", " ", "B", "o", " ", "u", "v", "w", "x", "y", "z", "\n", "A", "l", " ", "B", "o", " ", " ", "w", "o", "u", "l", "d", " ", " ", "R", "e", "v", "i", "e", "w", " ", "i", "t">>,
     <<"A", "l", ".", "\n", " ", "A", "l", " ", "B", "o", " ", "c", "a", "n", " ", "u", "v", "w", "x", "y", "z", ".", " ", "n", "e", "e", "d", " ", " ", " ", "A", "l", " ", "t", "o", " ", "r", "e", "v", "i", "e", "w">>,
     Token.Al \o Token.sp \o T_open}

\* Segments as merge_transcription_diarization builds them, and one without a
\* speaker.
Segments ==
    {[start |-> 0, end |-> 1, text |-> "hello", speaker |-> Token.Al],
     [start |-> 1, end |-> 2, text |-> "hello",
      speaker |-> <<"S", "p", "e", "a", "k", "e", "r", "_", "0">>],
     [index |-> 3, text |-> "hello"]}

SegmentInputs == SeqsUpTo(Segments, MaxSegs)

IdleTrack ==
    /\ t_pc = "idle"
    /\ username = <<>>
    /\ t_username = <<>>
    /\ full_transcript = <<>>
    /\ segments = <<>>
    /\ diarization_available = FALSE
    /\ name_variations = <<>>
    /\ mentions = <<>>
    /\ track_result = NoResult

(***************************************************************************)
(* Inputs of the personal insights.                                        *)
(***************************************************************************)
\* What is said in the meeting, a speaker label without a name, the assignee
\* of an item without one, a summary.
Said ==
    [review |-> <<"A", "l", " ", "w", "i", "l", "l", " ", "r", "e", "v", "i", "e", "w", " ", "i", "t">>,
     deck |-> <<"a", " ", "d", "e", "c", "k">>,
     it |-> <<"r", "e", "v", "i", "e", "w", " ", "i", "t">>,
     send |-> <<"s", "e", "n", "d", " ", "i", "t">>,
     label |-> <<"S", "p", "e", "a", "k", "e", "r", "_", "0">>,
     unassigned |-> <<"U", "n", "a", "s", "s", "i", "g", "n", "e", "d">>,
     summary |-> <<"A", "l", " ", "r", "e", "v", "i", "e", "w", "s", ".">>]

\* transcription.py 34 strips the text of every segment; api.py 162-177 gives
\* every merged segment a speaker.
PersonalSegmentKinds ==
    {[start |-> 0, end |-> 1, text |-> text, speaker |-> Said.label] :
        text \in {<<>>, Said.review, Said.deck, Said.it}}
    \cup {[start |-> 1, end |-> 2, text |-> text, speaker |-> Token.AlBo] :
             text \in {Said.review, Said.it}}

\* action_items.py 55-62: the fields of an item that the filter reads.
ActionItemKinds ==
    {[task |-> Said.send, assignee |-> Token.Al, context |-> Token.Al \o Token.sp \o Said.send],
     [task |-> Title(Said.it), assignee |-> Said.unassigned, context |-> Said.it],
     [task |-> Said.send, assignee |-> Said.unassigned, context |-> Said.deck],
     [task |-> Said.send, assignee |-> Said.unassigned, context |-> Said.send]}

SummarizerReplies ==
    {[raises |-> FALSE, summary_text |-> Said.summary],
     [raises |-> FALSE, summary_text |-> <<>>],
     [raises |-> TRUE, summary_text |-> <<>>]}

IdleInsights ==
    /\ p_pc = "idle"
    /\ user_name = <<>>
    /\ p_full_transcript = <<>>
    /\ p_segments = <<>>
    /\ p_action_items = <<>>
    /\ p_diarization_available = FALSE
    /\ summarizer_reply = [raises |-> TRUE, summary_text |-> <<>>]
    /\ personal_transcript = <<>>
    /\ personal_segments = <<>>
    /\ personal_summary = <<>>
    /\ summarize_calls = <<>>
    /\ insights = NoResult

(***************************************************************************)
(* Inputs of the extractor.                                                *)
(***************************************************************************)
RECURSIVE JoinWords(_)
JoinWords(ws) ==
    IF Len(ws) = 0 THEN <<>>
    ELSE LET rest == JoinWords(Tail(ws))
         IN  IF Len(Head(ws)) = 0 THEN rest
             ELSE IF rest = <<>> THEN Head(ws)
             ELSE Head(ws) \o <<" ">> \o rest

Pad(n) == SubSeq([k \in 1..n |-> Word.pad], 1, n)

SentenceText(opener, body, pad) == JoinWords(<<opener>> \o body \o Pad(pad))

Openers ==
    {<<>>, Word.SoC, Word.Someone, Word.CanYou, Word.WillC, Word.JohnC,
     JoinWords(<<Word.SoC, Word.CanYou, Word.JohnC>>), JoinWords(<<Word.JohnC, Word.CanYou>>),
     JoinWords(<<Word.WillYou, Word.TomorrowC>>)}

BodyVocab ==
    {Word.will, Word.tomorrow, Word.friday, Word.march5, Word.numdate,
     Word.urgent, Word.eventually, Word.important, Word.theteam}

\* Word counts below, inside and above the window [5, 30] of line 122.
PadCounts == {0, 4, 29}

PersonLists == {<<>>, <<Word.John>>}

\* The bodies that go with a padding: the long padding, which only serves to
\* pass the upper end of the word-count window, goes with the shorter bodies.
BodiesFor(pad) ==
    SeqsUpTo(BodyVocab, IF pad = Max(PadCounts) THEN MaxBody - 1 ELSE MaxBody)

\* Single sentences, widely varied.
WideSentences ==
    {s \in UNION {{[text |-> SentenceText(o, b, p), persons |-> ps] :
                      o \in Openers, b \in BodiesFor(p), ps \in PersonLists} :
                  p \in PadCounts} :
        Len(s.text) > 0}

\* Sentences of multi-sentence documents: every priority, one sentence that is
\* skipped, one with two PERSON entities.
DocSentences ==
    {[text |-> SentenceText(Word.WillC, <<w>>, 0), persons |-> <<Word.John>>] :
        w \in {Word.urgent, Word.eventually, Word.tomorrow, Word.important}}
    \cup {[text |-> Word.tomorrow, persons |-> <<>>],
          [text |-> SentenceText(Word.SoC, <<Word.will, Word.urgent>>, 0),
           persons |-> <<Word.John, Word.Mary>>]}

IdleAlign ==
    /\ m_pc = "idle"
    /\ transcription = [text |-> "", language |-> "", segments |-> <<>>]
    /\ diarization = NoDiarization
    /\ merged = NoMerged

IdleExtract ==
    /\ e_pc = "idle"
    /\ doc = <<>>
    /\ e_i = 0
    /\ e_local = NoLocals
    /\ action_items = <<>>

IdleUpload ==
    /\ u_pc = "idle"
    /\ file_ext = ""
    /\ query_user_name = [given |-> FALSE]
    /\ file_on_disk = FALSE
    /\ cleanup_scheduled = FALSE
    /\ returned = {}
    /\ swallowed = {}
    /\ raised_at = "none"
    /\ status_code = 0
    /\ diarization_result = "empty"
    /\ personal_insights = "null"
    /\ mention_tracking = "null"

\* Nobody constructs or calls the diarization service.
DiarizationAt(position) ==
    /\ d_pc = [t \in Callers |-> position]
    /\ instance = 0
    /\ lock = 0
    /\ initialized = FALSE
    /\ pipeline = "unset"
    /\ device = "unset"
    /\ is_loading = "unset"
    /\ created = 0
    /\ init_count = 0
    /\ load_count = 0
    /\ obtained = [t \in Callers |-> 0]
    /\ diarized = [t \in Callers |-> "pending"]

IdleDiarization == DiarizationAt("idle") /\ hf_token = FALSE

IdleHost == IdleUpload /\ IdleDiarization

StartExtract ==
    /\ e_pc = "loop"
    /\ e_i = 0
    /\ e_local = NoLocals
    /\ action_items = <<>>

vars == <<alignVars, extractVars, trackVars, insightVars, hostVars>>

(***************************************************************************)
(* Specifications.                                                         *)
(***************************************************************************)
InitAlign ==
    /\ m_pc = "start"
    /\ transcription \in
         {[text |-> "hello", language |-> "en", segments |-> s] :
            s \in SeqsUpTo(TranscriptionSegments, MaxSegs)}
    /\ diarization \in DiarizationInputs
    /\ merged = NoMerged
    /\ IdleExtract
    /\ IdleTrack
    /\ IdleInsights
    /\ IdleHost

NextAlign == Merge

SpecAlign == InitAlign /\ [][NextAlign]_vars

\* extract() on one sentence drawn from WideSentences.
InitSentence ==
    /\ doc \in {<<s>> : s \in WideSentences}
    /\ StartExtract
    /\ IdleAlign
    /\ IdleTrack
    /\ IdleInsights
    /\ IdleHost

\* extract() on a document of up to MaxSents sentences.
InitExtract ==
    /\ doc \in SeqsUpTo(DocSentences, MaxSents)
    /\ StartExtract
    /\ IdleAlign
    /\ IdleTrack
    /\ IdleInsights
    /\ IdleHost

NextExtract == ProcessSentence \/ SortAndReturn

SpecSentence == InitSentence /\ [][NextExtract]_vars

SpecExtract == InitExtract /\ [][NextExtract]_vars

\* track_mentions() on a username, a transcript and the segments of a meeting.
InitTrack ==
    /\ t_pc = "start"
    /\ username \in Usernames
    /\ \/ /\ full_transcript \in Transcripts \cup SpokenTranscripts
          /\ segments = <<>>
          /\ diarization_available = FALSE
       \/ /\ full_transcript \in {Token.Al, Token.ab}
          /\ segments \in SegmentInputs
          /\ diarization_available \in BOOLEAN
    /\ t_username = <<>>
    /\ name_variations = <<>>
    /\ mentions = <<>>
    /\ track_result = NoResult
    /\ IdleAlign
    /\ IdleExtract
    /\ IdleInsights
    /\ IdleHost

NextTrack == TrackStart \/ TrackFind \/ TrackCompile

SpecTrack == InitTrack /\ [][NextTrack]_vars

\* A request with a user name: the segments vary, or the action items, or
\* the answer of the summarization pipeline.
InitInsights ==
    /\ p_pc = "start"
    /\ user_name \in Usernames
    /\ p_full_transcript \in {Said.review, Said.deck}
    /\ \/ /\ p_segments \in SeqsUpTo(PersonalSegmentKinds, MaxSegs)
          /\ p_action_items = <<>>
          /\ p_diarization_available \in BOOLEAN
          /\ summarizer_reply = [raises |-> FALSE, summary_text |-> Said.summary]
       \/ /\ p_segments \in {<<s>> : s \in {k \in PersonalSegmentKinds :
                                                k.speaker = Said.label}}
          /\ p_diarization_available = FALSE
          /\ \/ /\ p_action_items \in SeqsUpTo(ActionItemKinds, MaxSegs)
                /\ summarizer_reply = [raises |-> FALSE, summary_text |-> Said.summary]
             \/ /\ p_action_items = <<>>
                /\ summarizer_reply \in SummarizerReplies
    /\ personal_transcript = <<>>
    /\ personal_segments = <<>>
    /\ personal_summary = <<>>
    /\ summarize_calls = <<>>
    /\ insights = NoResult
    /\ IdleAlign
    /\ IdleExtract
    /\ IdleTrack
    /\ IdleHost

\* The two services called with a segment list that may hold entries that are
\* no dictionaries, and a summarization pipeline that may fail.
FaultySegmentKinds ==
    {NotADict,
     [start |-> 0, end |-> 1, text |-> Said.review, speaker |-> Said.label],
     [start |-> 1, end |-> 2, text |-> Said.it, speaker |-> Token.AlBo]}

InitFaulty ==
    /\ p_pc = "start"
    /\ user_name \in Usernames
    /\ p_full_transcript \in {Said.review, Said.deck}
    /\ p_segments \in SeqsUpTo(FaultySegmentKinds, MaxSegs)
    /\ p_action_items = <<>>
    /\ p_diarization_available \in BOOLEAN
    /\ summarizer_reply \in {[raises |-> FALSE, summary_text |-> Said.summary],
                              [raises |-> TRUE, summary_text |-> <<>>]}
    /\ personal_transcript = <<>>
    /\ personal_segments = <<>>
    /\ personal_summary = <<>>
    /\ summarize_calls = <<>>
    /\ insights = NoResult
    /\ IdleAlign
    /\ IdleExtract
    /\ IdleTrack
    /\ IdleHost

NextInsights ==
    \/ InsightsStart
    \/ InsightsSummary
    \/ InsightsCompile
    \/ ApiTrackMentions
    \/ TrackStart
    \/ TrackFind
    \/ TrackCompile

SpecInsights == InitInsights /\ [][NextInsights]_vars

SpecFaulty == InitFaulty /\ [][NextInsights]_vars

\* Requests to POST /meetings/upload: a file name with an allowed or another
\* extension, with or without the user_name parameter.
Extensions == {".wav", ".ogg", ".txt", ""}

QueryNames ==
    {[given |-> FALSE], [given |-> TRUE, value |-> ""],
     [given |-> TRUE, value |-> "Al"]}

InitUpload ==
    /\ u_pc = "check"
    /\ file_ext \in Extensions
    /\ query_user_name \in QueryNames
    /\ file_on_disk = FALSE
    /\ cleanup_scheduled = FALSE
    /\ returned = {}
    /\ swallowed = {}
    /\ raised_at = "none"
    /\ status_code = 0
    /\ diarization_result = "empty"
    /\ personal_insights = "null"
    /\ mention_tracking = "null"
    /\ IdleAlign
    /\ IdleExtract
    /\ IdleTrack
    /\ IdleInsights
    /\ IdleDiarization

NextUpload ==
    \/ ApiCheckFormat
    \/ ApiSaveUpload
    \/ ApiLoadAudio
    \/ ApiTranscribe
    \/ ApiDiarize
    \/ ApiMerge
    \/ ApiSummarize
    \/ ApiExtract
    \/ ApiPersonalInsights
    \/ ApiMentionTracking
    \/ ApiRespond
    \/ ApiCleanupFile

SpecUpload == InitUpload /\ [][NextUpload]_vars

\* Threads that each construct DiarizationService() and call diarize once,
\* with or without settings.HF_TOKEN.
InitDiarization ==
    /\ DiarizationAt("new")
    /\ hf_token \in BOOLEAN
    /\ IdleAlign
    /\ IdleExtract
    /\ IdleTrack
    /\ IdleInsights
    /\ IdleUpload

NextDiarization ==
    \E t \in Callers :
        \/ NewCheck(t)
        \/ NewAcquire(t)
        \/ NewCreate(t)
        \/ NewReturn(t)
        \/ InitCheck(t)
        \/ InitAcquire(t)
        \/ InitRecheck(t)
        \/ InitPipeline(t)
        \/ InitDevice(t)
        \/ InitLoading(t)
        \/ InitFlag(t)
        \/ Diarize(t)
        \/ LoadCheck(t)
        \/ LoadFlagCheck(t)
        \/ LoadToken(t)
        \/ LoadSet(t)
        \/ LoadModel(t)
        \/ LoadTo(t)
        \/ LoadFinally(t)
        \/ RunPipeline(t)

SpecDiarization == InitDiarization /\ [][NextDiarization]_vars


(***************************************************************************)
(* Properties of the interval aligner (SpecAlign).                         *)
(***************************************************************************)
SuppliedLabels == {diarization.list[j].speaker : j \in 1..Len(diarization.list)}

\* C1: every output segment of merge_transcription_diarization carries a
\* speaker that is the label of a supplied diarization interval or the
\* sentinel "Speaker_0"; no segment is lost and none has a null speaker.
C1_SpeakerIsLabelOrDefault ==
    m_pc = "done" =>
        /\ Len(merged.segments) = Len(transcription.segments)
        /\ \A k \in 1..Len(merged.segments) :
              merged.segments[k].speaker \in SuppliedLabels \cup {DefaultSpeaker}

\* C1 witness: one merge yields both a diarization label and the sentinel.
C1_Witness ==
    /\ m_pc = "done"
    /\ Truthy(diarization)
    /\ \E k \in 1..Len(merged.segments) : merged.segments[k].speaker = DefaultSpeaker
    /\ \E k \in 1..Len(merged.segments) : merged.segments[k].speaker \in SuppliedLabels

\* The intervals that strictly overlap a segment, by index in input order.
StrictHits(seg) ==
    {j \in 1..Len(diarization.list) :
        diarization.list[j].start < seg.end /\ diarization.list[j].end > seg.start}

\* C2: the speaker of a segment is the label of the first interval in input
\* order with dia.start < seg.end and dia.end > seg.start; "Speaker_0" when
\* the diarization is empty, absent, or nothing strictly overlaps.
C2_FirstStrictOverlapWins ==
    m_pc = "done" =>
        \A k \in 1..Len(merged.segments) :
            LET seg == transcription.segments[k]
            IN  merged.segments[k].speaker =
                    IF StrictHits(seg) = {} THEN DefaultSpeaker
                    ELSE diarization.list[Min(StrictHits(seg))].speaker

OverlapLength(dia, seg) ==
    Min({dia.end, seg.end}) - Max({dia.start, seg.start})

\* C2 witness (scenario E): a later interval of another speaker overlaps the
\* segment longer than the first one, and the first one is chosen.
C2_Witness ==
    /\ m_pc = "done"
    /\ \E k \in 1..Len(merged.segments) :
          LET seg == transcription.segments[k]
              list == diarization.list
          IN  \E a \in StrictHits(seg), b \in StrictHits(seg) :
                 /\ a = Min(StrictHits(seg))
                 /\ a < b
                 /\ list[a].speaker # list[b].speaker
                 /\ OverlapLength(list[b], seg) > OverlapLength(list[a], seg)
                 /\ merged.segments[k].speaker = list[a].speaker

(***************************************************************************)
(* Properties of the action item extractor.                                *)
(***************************************************************************)
Priorities == {"high", "medium", "low"}

Rank(priority) ==
    IF priority = "high" THEN 0 ELSE IF priority = "medium" THEN 1 ELSE 2

OfPriority(items, p) ==
    LET Test(x) == x.priority = p IN SelectSeq(items, Test)

\* The contexts of the items are the texts of sentences k1 < k2 < ... of doc.
RECURSIVE InSentenceOrder(_, _)
InSentenceOrder(items, from) ==
    \/ Len(items) = 0
    \/ \E k \in from..e_i :
          /\ Head(items).context = Strip(doc[k].text)
          /\ InSentenceOrder(Tail(items), k + 1)

\* C3 (SpecExtract): in the list extract returns, priority ranks (high=0,
\* medium=1, low=2) never decrease, and the items of one priority are in the
\* order of their source sentences: the items are gathered in sentence order
\* and the final sort keeps that order within every priority.
C3_SortedByPriorityStable ==
    /\ [](e_pc = "loop" => InSentenceOrder(action_items, 1))
    /\ [][(e_pc = "loop" /\ e_pc' = "done") =>
            /\ \A k \in 1..(Len(action_items') - 1) :
                  Rank(action_items'[k].priority) <= Rank(action_items'[k + 1].priority)
            /\ \A p \in Priorities :
                  OfPriority(action_items', p) = OfPriority(action_items, p)
            /\ Len(action_items') = Len(action_items)]_vars

\* C3 witness: three items are returned, two of them of one priority from
\* different sentences, and the sort had to move an item to the front.
C3_Witness ==
    /\ e_pc = "done"
    /\ Len(action_items) >= 3
    /\ Len(doc) = Len(action_items)
    /\ action_items[1].context # Strip(doc[1].text)
    /\ \E a, b \in 1..Len(action_items) :
          /\ a < b
          /\ action_items[a].priority = action_items[b].priority
          /\ action_items[a].context # action_items[b].context

\* The confidence the weights of the claim give, in hundredths.
ClaimedConfidence(has_assignee, has_deadline, words) ==
    LET sum == 30 + (IF has_assignee THEN 30 ELSE 0) + (IF has_deadline THEN 20 ELSE 0)
                  + (IF words \in 5..30 THEN 20 ELSE 0)
    IN  IF sum > 100 THEN 100 ELSE sum

\* C4 (SpecSentence): a sentence yields a returned item iff it contains an action
\* phrase, its stripped task text is not empty and its confidence
\* 0.3 + 0.3 (assignee) + 0.2 (deadline) + 0.2 (5..30 words), capped at 1.0,
\* is at least 0.6; an emitted item has that confidence, in [0.6, 1.0], and an
\* item without assignee has a deadline and 5..30 words.
C4_EmitIffConfident ==
    e_pc = "done" =>
        LET text == Strip(doc[1].text)
            conf == ClaimedConfidence(e_local.assignee # None,
                                      e_local.deadline # None, WordCount(text))
            qualifies == /\ e_local.has_verb
                         /\ e_local.task # <<>>
                         /\ conf >= 60
        IN  /\ Len(action_items) = (IF qualifies THEN 1 ELSE 0)
            /\ \A k \in 1..Len(action_items) :
                  /\ action_items[k].confidence = conf
                  /\ conf \in 60..100
                  /\ action_items[k].assignee = Unassigned =>
                        /\ action_items[k].deadline # NoDeadline
                        /\ WordCount(text) \in 5..30

\* C4 witness: an item without assignee is emitted at confidence 0.7.
C4_Witness ==
    /\ e_pc = "done"
    /\ Len(action_items) = 1
    /\ action_items[1].assignee = Unassigned
    /\ action_items[1].confidence = 70

\* `\bw\b` occurs in s.
HasWord(s, w) ==
    \E p \in 1..Len(s) : HasAt(s, p, w) /\ Boundary(s, p) /\ Boundary(s, p + Len(w))

HasAnyOf(s, list) == \E k \in 1..Len(list) : Contains(s, list[k])

\* The premises of scenario A on the one sentence of the document.
ScenarioA ==
    /\ Len(doc) = 1
    /\ Contains(Lower(doc[1].text), Word.will)
    /\ HasWord(Lower(doc[1].text), Word.tomorrow)
    /\ ~HasAnyOf(Lower(doc[1].text), priority_high)
    /\ ~HasAnyOf(Lower(doc[1].text), priority_low)
    /\ Len(doc[1].persons) = 1

ScenarioAResult ==
    /\ Len(action_items) = 1
    /\ action_items[1].assignee = doc[1].persons[1]
    /\ action_items[1].deadline = D_Tomorrow
    /\ action_items[1].priority = "medium"
    /\ action_items[1].confidence >= 60

\* C5 as stated: a single sentence with "will", the word "tomorrow", no high
\* or low keyword and exactly one PERSON entity N yields exactly one item with
\* assignee N, deadline "Tomorrow", priority "medium", confidence >= 0.6.
C5_AsStated == (e_pc = "done" /\ ScenarioA) => ScenarioAResult

\* The first relative-day term of the sentence is "tomorrow".
TomorrowIsFirstRelativeDay(low) ==
    LET m == DateSearch(2, low)
    IN  m[1] > 0 /\ SubSeq(low, m[1], m[1] + m[2] - 1) = Word.tomorrow

\* C5 amended: ... provided no weekday name occurs in the sentence as a word,
\* no other relative-day term precedes "tomorrow", and the task text left
\* after stripping the leading filler, request prefix and vocative is not empty.
C5_ScenarioA ==
    (/\ e_pc = "done"
     /\ ScenarioA
     /\ \A k \in 1..Len(weekday_names) : ~HasWord(Lower(doc[1].text), weekday_names[k])
     /\ TomorrowIsFirstRelativeDay(Lower(Strip(doc[1].text)))
     /\ e_local.task # <<>>)
        => ScenarioAResult

\* C5 witness: the scenario applies and the item is returned.
C5_Witness ==
    /\ e_pc = "done"
    /\ ScenarioA
    /\ ScenarioAResult
    /\ action_items[1].assignee = Word.John

\* C6 (SpecSentence): the priority of a returned item is high, medium or low: high
\* iff the sentence contains a high keyword, low iff it contains a low
\* keyword and no high one, medium otherwise.
C6_PriorityOrder ==
    e_pc = "done" => \A k \in 1..Len(action_items) :
        LET low == Lower(action_items[k].context)
            p == action_items[k].priority
            anyHigh == HasAnyOf(low, priority_high)
            anyLow == HasAnyOf(low, priority_low)
        IN  /\ p \in Priorities
            /\ (p = "high") = anyHigh
            /\ (p = "low") = (~anyHigh /\ anyLow)
            /\ (p = "medium") = (~anyHigh /\ ~anyLow)

\* C6 witness: a sentence with a high and a low keyword gives a high item, and
\* the order of the two keywords in the sentence does not matter.
C6_Witness ==
    /\ e_pc = "done"
    /\ Len(action_items) = 1
    /\ action_items[1].priority = "high"
    /\ \E a, b \in 1..Len(action_items[1].context) :
          /\ a < b
          /\ HasAt(Lower(action_items[1].context), a, Word.eventually)
          /\ HasAt(Lower(action_items[1].context), b, Word.urgent)

\* The text of the leftmost match of date pattern k in s.
DateMatchText(k, s) ==
    LET m == DateSearch(k, s) IN SubSeq(s, m[1], m[1] + m[2] - 1)

\* C7 (SpecSentence): the deadline of a returned item is the title-cased match of the first
\* pattern, in the order weekday, relative day, month+day, numeric date, that
\* matches anywhere in the sentence ("tomorrow ... friday" gives "Friday");
\* without a match it is "No deadline specified" and adds no confidence.
C7_DeadlinePatternOrder ==
    e_pc = "done" => \A i \in 1..Len(action_items) :
        LET low == Lower(action_items[i].context)
            matching == {k \in 1..4 : DateSearch(k, low)[1] > 0}
            d == action_items[i].deadline
        IN  /\ matching # {} => d = Title(DateMatchText(Min(matching), low))
            /\ HasWord(low, Word.friday) => d = D_Friday
            /\ (HasWord(low, Word.tomorrow) /\ 1 \notin matching) => d = D_Tomorrow
            /\ matching = {} =>
                  /\ d = NoDeadline
                  /\ action_items[i].confidence =
                        ClaimedConfidence(e_local.assignee # None, FALSE,
                                          WordCount(action_items[i].context))

\* C7 witness: "tomorrow" stands before "friday" and the deadline is "Friday".
C7_Witness ==
    /\ e_pc = "done"
    /\ Len(action_items) = 1
    /\ action_items[1].deadline = D_Friday
    /\ \E a, b \in 1..Len(action_items[1].context) :
          /\ a < b
          /\ HasAt(Lower(action_items[1].context), a, Word.tomorrow)
          /\ HasAt(Lower(action_items[1].context), b, Word.friday)

\* The filler removal of the claim: only a whole first word is a filler.
StripFillerWord(text) ==
    LET low == Lower(text)
        hit == {k \in 1..Len(filler_words) :
                  HasAt(low, 1, filler_words[k]) /\ Boundary(low, Len(filler_words[k]) + 1)}
    IN  IF hit = {} THEN text ELSE StripFiller(text)

ClaimedTask(text) ==
    Capitalize(Strip(StripVocative(StripPolite(StripFillerWord(text)))))

\* C8 (SpecSentence): the task is the sentence without a leading filler word,
\* then without a leading polite-request prefix, then without a leading
\* vocative, first letter capitalized; a first word that only starts with
\* the letters of a filler ("Someone") is kept intact.
C8_TaskDescription ==
    \A k \in 1..Len(action_items) :
        action_items[k].task = ClaimedTask(action_items[k].context)

(***************************************************************************)
(* Properties of the mention tracker (SpecTrack).                          *)
(***************************************************************************)
\* No variation of the stripped name occurs in the transcript as a whole word.
NoOccurrence ==
    LET low == Lower(full_transcript)
    IN  \A v \in VariationSet(Strip(username)) :
            \A p \in 1..(Len(low) + 1) : ~VariationAt(low, p, v)

\* C9: track_mentions returns no result when the username is empty, the
\* transcript is empty or no mention is found; a report that is returned has
\* mention_count >= 1, the length of its mentions list.
C9_NoResultOrCounted ==
    t_pc = "done" =>
        /\ (Len(username) = 0 \/ Len(full_transcript) = 0 \/ NoOccurrence)
              => track_result.none
        /\ ~track_result.none =>
              /\ track_result.mention_count >= 1
              /\ track_result.mention_count = Len(track_result.mentions)

\* C9 witness: a name that does not occur gives no result although username
\* and transcript are not empty.
C9_Witness ==
    /\ t_pc = "done"
    /\ Len(username) > 0
    /\ Len(Strip(username)) > 0
    /\ Len(full_transcript) > 0
    /\ NoOccurrence
    /\ track_result.none

\* C10: the list _find_mentions returns is sorted by position and no mention
\* starts less than 5 characters behind the end of the one before it.
C10_SortedWithGap ==
    t_pc \in {"compile", "done"} =>
        \A k \in 1..(Len(mentions) - 1) :
            /\ mentions[k].position <= mentions[k + 1].position
            /\ ~(mentions[k + 1].position < mentions[k].end_position + 5)

\* C10 witness: several mentions are retained and a candidate was dropped.
C10_Witness ==
    /\ t_pc = "done"
    /\ Len(mentions) >= 2
    /\ Len(Candidates(full_transcript, name_variations, 1)) > Len(mentions)
    /\ \E k \in 1..(Len(mentions) - 1) :
          mentions[k + 1].position < mentions[k].end_position + 8

\* The text left when every [MENTION] and [/MENTION] is deleted from s.
RECURSIVE RemoveMarkers(_)
RemoveMarkers(s) ==
    LET at == {p \in 1..Len(s) : HasAt(s, p, T_open) \/ HasAt(s, p, T_close)}
    IN  IF at = {} THEN s
        ELSE LET first == Min(at)
                 width == IF HasAt(s, first, T_open) THEN Len(T_open)
                          ELSE Len(T_close)
             IN  SubSeq(s, 1, first - 1)
                 \o RemoveMarkers(SubSeq(s, first + width, Len(s)))

\* The number of places of s at which w stands.
CountOf(s, w) == Cardinality({p \in 1..Len(s) : HasAt(s, p, w)})

\* C11 (SpecTrack): deleting every marker from the highlighted transcript
\* gives the transcript back, and the highlighted transcript holds one marker
\* pair per retained mention, the k-th pair wrapping the k-th matched text.
C11_HighlightRoundTrip ==
    (t_pc = "done" /\ ~track_result.none) =>
        LET h == track_result.highlight_transcript
            ms == track_result.mentions
            pair == Len(T_open) + Len(T_close)
        IN  /\ RemoveMarkers(h) = full_transcript
            /\ CountOf(h, T_open) = Len(ms)
            /\ CountOf(h, T_close) = Len(ms)
            /\ \A k \in 1..Len(ms) :
                  HasAt(h, ms[k].position + 1 + (k - 1) * pair,
                        T_open \o ms[k].matched_text \o T_close)

\* C11 restricted to transcripts without marker text, which the highlighting
\* does round-trip.
C11_NoMarkerText ==
    (CountOf(full_transcript, T_open) = 0 /\ CountOf(full_transcript, T_close) = 0)
        => C11_HighlightRoundTrip

\* The spans [start, end) (offsets from 0) of the pieces that the sentence
\* separators leave of s, scanning at p the piece that starts at start.
RECURSIVE PieceSpans(_, _, _)
PieceSpans(s, start, p) ==
    IF p > Len(s) THEN {[start |-> start - 1, end |-> Len(s)]}
    ELSE IF SeparatorAt(s, p) > 0
    THEN {[start |-> start - 1, end |-> p - 1]}
         \cup PieceSpans(s, p + SeparatorAt(s, p), p + SeparatorAt(s, p))
    ELSE PieceSpans(s, start, p + 1)

\* C12 (SpecTrack): every retained mention is attached to exactly one sentence
\* group, the group of the sentence whose span in the transcript holds the
\* mention's start; the group's position is the start of that span and
\* position_in_sentence is the mention's position minus that start.
C12_SentenceOfMention ==
    (t_pc = "done" /\ ~track_result.none) =>
        LET groups == track_result.sentences_with_mentions
            spans == PieceSpans(full_transcript, 1, 1)
        IN  \A k \in 1..Len(track_result.mentions) :
                LET m == track_result.mentions[k]
                    home == {sp \in spans : sp.start <= m.position /\ m.position < sp.end}
                    entries == {<<g, j>> \in (1..Len(groups)) \X (1..Len(track_result.mentions)) :
                                   /\ j <= Len(groups[g].mentions)
                                   /\ groups[g].mentions[j].text = m.matched_text
                                   /\ groups[g].mentions[j].variation = m.variation}
                IN  /\ Cardinality(home) = 1
                    /\ \E sp \in home :
                          \E e \in entries :
                              /\ groups[e[1]].position = sp.start
                              /\ groups[e[1]].mentions[e[2]].position_in_sentence
                                    = m.position - sp.start
                              /\ \A f \in entries :
                                    (groups[f[1]].position
                                       + groups[f[1]].mentions[f[2]].position_in_sentence
                                     = m.position) => f = e

\* The name forms a speaker may use for the user: the full name and, for a
\* name of several words, its first word.
NameForms(name) == {name} \cup {SplitWords(name)[1] : k \in {1} \cap DOMAIN SplitWords(name)}

\* C13: when the transcript is "NAME, can you review the deck?" for a form
\* NAME of the username, track_mentions finds a mention of a variation at the
\* start and returns exactly one task assignment, "Review the deck", assigned
\* to the username.
C13_ScenarioB ==
    (/\ t_pc = "done"
     /\ Len(t_username) > 0
     /\ \E n \in NameForms(t_username) : full_transcript = n \o Token.ask)
    => /\ ~track_result.none
       /\ \E k \in 1..Len(track_result.mentions) :
             /\ track_result.mentions[k].position = 0
             /\ track_result.mentions[k].variation \in VariationSet(t_username)
       /\ Len(track_result.assigned_tasks) = 1
       /\ track_result.assigned_tasks[1].task = Token.deck
       /\ track_result.assigned_tasks[1].assigned_to = t_username

\* Scenario B as the specification gives it, with a one-word username.
C13_OneWordName == (\A k \in 1..Len(t_username) : t_username[k] # " ") => C13_ScenarioB

\* The tasks of the report before the duplicates are removed, in sentence and
\* pattern order.
RawTasks ==
    AllTasks(track_result.sentences_with_mentions, t_username, name_variations)

\* The index in raw of the first task whose text equals `task` ignoring case
\* (0 if there is none).
FirstIndexOf(raw, task) ==
    LET at == {r \in 1..Len(raw) : Lower(raw[r].task) = Lower(task)}
    IN  IF at = {} THEN 0 ELSE Min(at)

\* C14: assigned_tasks holds no two tasks whose texts are equal ignoring case;
\* each is the first extracted task of its text, in extraction order, and no
\* extracted text is missing; every text is longer than 5 characters and
\* starts with an upper-cased character; every task is assigned to the
\* username of the report with confidence "extracted".
C14_UniqueTasks ==
    (t_pc = "done" /\ ~track_result.none) =>
        LET out == track_result.assigned_tasks
            raw == RawTasks
        IN  /\ \A i, j \in 1..Len(out) :
                  i < j => /\ Lower(out[i].task) # Lower(out[j].task)
                           /\ FirstIndexOf(raw, out[i].task) < FirstIndexOf(raw, out[j].task)
            /\ \A k \in 1..Len(out) :
                  /\ FirstIndexOf(raw, out[k].task) > 0
                  /\ out[k] = raw[FirstIndexOf(raw, out[k].task)]
                  /\ Len(out[k].task) > 5
                  /\ out[k].task = Capitalize(out[k].task)
                  /\ out[k].assigned_to = track_result.username
                  /\ out[k].confidence = "extracted"
            /\ \A r \in 1..Len(raw) :
                  \E k \in 1..Len(out) : Lower(out[k].task) = Lower(raw[r].task)

\* A report from which a task was dropped as a duplicate that differs from
\* the kept one in case only.
C14_Witness ==
    /\ t_pc = "done"
    /\ ~track_result.none
    /\ Len(track_result.assigned_tasks) >= 1
    /\ \E r \in 1..Len(RawTasks) :
          \A k \in 1..Len(track_result.assigned_tasks) :
              track_result.assigned_tasks[k].task # RawTasks[r].task

\* What track_mentions returns when the variations are iterated in the order
\* vs and the clock reads now.
ReportWith(vs, now) ==
    LET ms == find_mentions(full_transcript, vs)
    IN  IF Len(ms) = 0 THEN NoResult
        ELSE [compile_report(vs, ms) EXCEPT !.tracked_at = now]

\* The orders and clock readings for which a second call is compared.
Reruns == generate_name_variations(t_username) \X Clock

\* C15: a second call of track_mentions with the same arguments returns the
\* result of the first, whatever the clock reads and in whatever order the set
\* of name variations is iterated.
C15_Idempotent ==
    (t_pc = "done" /\ Len(username) > 0 /\ Len(full_transcript) > 0) =>
        \A rerun \in Reruns : ReportWith(rerun[1], rerun[2]) = track_result

\* The same, the time stamp left aside: the order of the variations alone.
C15_SameButTimestamp ==
    (t_pc = "done" /\ Len(username) > 0 /\ Len(full_transcript) > 0) =>
        \A rerun \in Reruns :
            ReportWith(rerun[1], track_result.tracked_at) = track_result

(***************************************************************************)
(* Properties of the personal insights (SpecInsights).                     *)
(***************************************************************************)
\* No form of the name (the lower-cased full name and, for a name of several
\* words, its first word and its initials) occurs as a whole word in the
\* transcript or in the text of a segment, or is part of a speaker label.
NameAbsent ==
    LET forms == VariationSet(Strip(user_name))
        Absent(text) ==
            LET low == Lower(text)
            IN  \A v \in forms : \A p \in 1..(Len(low) + 1) : ~VariationAt(low, p, v)
    IN  /\ Absent(p_full_transcript)
        /\ \A k \in 1..Len(p_segments) :
              /\ Absent(p_segments[k].text)
              /\ \A v \in forms : ~InText(v, Lower(p_segments[k].speaker))

\* C16: when no form of the user's name occurs in the transcript, in a segment
\* text or in a speaker label, both track_mentions and
\* extract_personal_insights return None, for one-word names too.
C16_AbsentName ==
    (p_pc = "done" /\ t_pc = "done" /\ NameAbsent) =>
        /\ track_result.none
        /\ insights.none

\* C17: the variations the personal insights use for a user name are those
\* the mention tracker generates for it: the lower-cased full name and, only
\* for a name of several words, its first word and its initials. (A blank
\* name does not pass the guard of extract_personal_insights.)
C17_SameVariations ==
    (/\ t_pc \in {"find", "compile"}
     /\ username = user_name
     /\ Len(Strip(user_name)) > 0)
    =>  /\ personal_name_variations(user_name) = Range(name_variations)
        /\ Len(SplitWords(user_name)) = 1 =>
              Cardinality(personal_name_variations(user_name)) = 1

\* The segments of the request at which the speaker strategy fires.
SpeakerFires ==
    {k \in 1..Len(p_segments) :
        /\ p_diarization_available
        /\ InText(Lower(user_name), Lower(p_segments[k].speaker))}

\* The segments whose text holds a variation of the name as a whole word.
TextFires ==
    {k \in 1..Len(p_segments) :
        LET low == Lower(p_segments[k].text)
        IN  \E v \in personal_name_variations(user_name) :
                \E p \in 1..(Len(low) + 1) : VariationAt(low, p, v)}

\* The segments with a text at which a strategy fires and that repeat the
\* text of no earlier such segment.
Included ==
    LET Matches(k) ==
            Len(p_segments[k].text) > 0 /\ k \in SpeakerFires \cup TextFires
    IN  {k \in 1..Len(p_segments) :
            /\ Matches(k)
            /\ \A j \in 1..(k - 1) :
                  ~(Matches(j) /\ p_segments[j].text = p_segments[k].text)}

\* C18: personal_segments holds, in their order, exactly the segments with a
\* non-empty text at which the speaker strategy (diarization available and the
\* lower-cased user name part of the speaker label) or the text strategy (a
\* whole-word hit of a name variation) fires and whose text no earlier
\* included segment has; match_reason is "speaker_match" whenever the speaker
\* strategy fires and "name_mention" otherwise; without diarization no
\* segment is a "speaker_match".
C18_PersonalSegments ==
    (p_pc \in {"summary", "tasks", "done"} /\ Len(Strip(user_name)) > 0) =>
        /\ Len(personal_segments) = Cardinality(Included)
        /\ \A k \in Included :
              LET entry == personal_segments[Cardinality({j \in Included : j <= k})]
              IN  /\ \A field \in DOMAIN p_segments[k] :
                        entry[field] = p_segments[k][field]
                  /\ entry.match_reason =
                        IF k \in SpeakerFires THEN "speaker_match" ELSE "name_mention"
        /\ ~p_diarization_available =>
              \A k \in 1..Len(personal_segments) :
                  personal_segments[k].match_reason # "speaker_match"

\* Two segments with the same text; both strategies fire at the first, which
\* is recorded as a speaker match, and the second is dropped as a repetition.
C18_Witness ==
    /\ p_pc = "done"
    /\ Len(p_segments) = 2
    /\ p_segments[1].text = p_segments[2].text
    /\ 1 \in SpeakerFires \cap TextFires
    /\ 2 \in (SpeakerFires \cup TextFires) \ Included
    /\ Len(personal_segments) = 1
    /\ personal_segments[1].match_reason = "speaker_match"

\* C19: with a personal transcript of fewer than 10 characters the
\* summarization collaborator is not called and personal_summary is empty;
\* with 10 or more it is called once, with max_length 150 and min_length 30,
\* and a non-empty summary it returns is personal_summary behind the header
\* that names the user.
C19_PersonalSummary ==
    (p_pc = "tasks" \/ (p_pc = "done" /\ ~insights.none)) =>
        /\ Len(personal_transcript) < 10 =>
              /\ summarize_calls = <<>>
              /\ personal_summary = <<>>
        /\ Len(personal_transcript) >= 10 =>
              /\ summarize_calls =
                    <<[text |-> personal_transcript, max_length |-> 150, min_length |-> 30]>>
              /\ (~summarizer_reply.raises /\ Len(summarizer_reply.summary_text) > 0) =>
                    personal_summary =
                        context_prompt(user_name) \o summarizer_reply.summary_text

\* The part of C19 on short personal transcripts.
C19_ShortTranscript ==
    (p_pc = "tasks" /\ Len(personal_transcript) < 10) =>
        summarize_calls = <<>> /\ personal_summary = <<>>

\* The action items of the request whose lower-cased assignee contains a
\* variation of the name.
ByAssignee ==
    {k \in 1..Len(p_action_items) :
        \E v \in personal_name_variations(user_name) :
            Contains(Lower(p_action_items[k].assignee), v)}

\* Those whose lower-cased task or context is not empty and is part of the
\* lower-cased personal transcript.
ByTranscript ==
    LET low == Lower(personal_transcript)
        Part(text) == Len(text) > 0 /\ Contains(low, Lower(text))
    IN  {k \in 1..Len(p_action_items) :
            Part(p_action_items[k].task) \/ Part(p_action_items[k].context)}

\* C20: assigned_tasks of the bundle is the sub-list, in the order of the
\* action-item list, of exactly the items whose assignee contains a name
\* variation or whose task or context text is contained in the personal
\* transcript (lower-cased); either condition suffices.
C20_PersonalActionItems ==
    (p_pc = "done" /\ ~insights.none) =>
        LET kept == ByAssignee \cup ByTranscript
        IN  /\ Len(insights.assigned_tasks) = Cardinality(kept)
            /\ \A k \in kept :
                  insights.assigned_tasks[Cardinality({j \in kept : j <= k})]
                      = p_action_items[k]
            /\ insights.action_items_count = Cardinality(kept)

\* A bundle with an item kept for its text alone, one kept for its assignee
\* alone, or one of them and an item that is left out.
C20_Witness ==
    /\ p_pc = "done"
    /\ ~insights.none
    /\ Len(p_action_items) = 2
    /\ ByTranscript \ ByAssignee # {}
    /\ (ByAssignee \ ByTranscript # {} \/ Len(insights.assigned_tasks) = 1)

\* The texts of the segments of a bundle, in order.
BundleTexts(bundle) ==
    AsSeq([k \in 1..Len(bundle.personal_segments) |->
               bundle.personal_segments[k].text],
          Len(bundle.personal_segments))

\* C21: extract_personal_insights returns the absent result whenever no
\* segment matches; a returned bundle has a non-empty personal_transcript that
\* is the texts of its personal_segments joined by single spaces,
\* transcript_coverage = len(personal_segments) >= 1 and action_items_count =
\* len(assigned_tasks).
C21_Bundle ==
    p_pc = "done" =>
        /\ (Included = {} => insights.none)
        /\ ~insights.none =>
               /\ Len(insights.personal_transcript) > 0
               /\ insights.personal_transcript = JoinBySpace(BundleTexts(insights))
               /\ insights.transcript_coverage = Len(insights.personal_segments)
               /\ insights.transcript_coverage >= 1
               /\ insights.action_items_count = Len(insights.assigned_tasks)

\* A bundle of two matched segments is returned.
C21_Witness ==
    /\ p_pc = "done"
    /\ ~insights.none
    /\ insights.transcript_coverage = 2
    /\ Len(insights.personal_transcript) > Len(insights.personal_segments[1].text)

\* The spans of two mentions share a character.
SpansOverlap(a, b) ==
    a.position < b.end_position /\ b.position < a.end_position

\* C25 (SpecTrack): deduplication discards a candidate only when its span
\* overlaps the span of a retained mention, so two occurrences of the name
\* that do not overlap are both retained however close they are.
C25_OnlyOverlapsDropped ==
    (t_pc = "done" /\ ~track_result.none /\ Len(Strip(username)) > 0) =>
        LET found == Candidates(full_transcript, name_variations, 1)
            kept == track_result.mentions
        IN  /\ track_result.mention_count = Len(kept)
            /\ \A j \in 1..Len(found) :
                  \/ \E k \in 1..Len(kept) :
                        /\ kept[k].position = found[j].position
                        /\ kept[k].end_position = found[j].end_position
                  \/ \E k \in 1..Len(kept) : SpansOverlap(found[j], kept[k])

\* C26 (SpecTrack): for any non-empty username, a whitespace-only one
\* included, every mention of a report has 0 <= position < end_position <=
\* len(transcript), a non-empty matched_text that is
\* transcript[position:end_position] and equals its variation ignoring case,
\* and a context that is a slice of the transcript within 50 characters of
\* the span, clamped to the transcript.
C26_MentionShape ==
    (t_pc = "done" /\ ~track_result.none /\ Len(username) > 0) =>
        \A k \in 1..Len(track_result.mentions) :
            LET m == track_result.mentions[k]
                from == Max({0, m.position - ContextWidth})
                to == Min({Len(full_transcript), m.end_position + ContextWidth})
            IN  /\ 0 <= m.position
                /\ m.position < m.end_position
                /\ m.end_position <= Len(full_transcript)
                /\ Len(m.matched_text) > 0
                /\ m.matched_text =
                       SubSeq(full_transcript, m.position + 1, m.end_position)
                /\ Lower(m.matched_text) = m.variation
                /\ m.context = Strip(SubSeq(full_transcript, from + 1, to))

\* C27 (SpecInsights): an action item with the default assignee "Unassigned"
\* whose task and context are not part of the personal transcript is not in
\* assigned_tasks, whatever the user name.
C27_UnassignedExcluded ==
    (p_pc = "done" /\ ~insights.none) =>
        \A k \in 1..Len(p_action_items) :
            (p_action_items[k].assignee = Said.unassigned /\ k \notin ByTranscript)
                => \A j \in 1..Len(insights.assigned_tasks) :
                       insights.assigned_tasks[j] # p_action_items[k]

\* What C22 asks of the states: no call has raised, an entry of the segment
\* list that is no dictionary makes the call that reads it return the absent
\* result, a failing summarization collaborator leaves an empty
\* personal_summary, and the tracker is called with the arguments of the
\* request as they were.
C22_Returns ==
    /\ p_pc = "done" =>
          /\ "raised" \notin DOMAIN insights
          /\ (Len(Strip(user_name)) > 0 /\ SegmentLoopRaises(p_segments))
                 => insights.none
          /\ (~insights.none /\ summarizer_reply.raises)
                 => insights.personal_summary = <<>>
    /\ t_pc = "done" =>
          /\ "raised" \notin DOMAIN track_result
          /\ (Len(mentions) > 0 /\ diarization_available
                  /\ SegmentLoopRaises(segments))
                 => track_result.none
    /\ t_pc # "idle" =>
          /\ segments = p_segments
          /\ full_transcript = p_full_transcript
          /\ username = user_name

\* C22 (SpecFaulty): track_mentions and extract_personal_insights never raise
\* to their caller: an error inside either of them (a failing summarization
\* collaborator, a malformed segment record) is turned into the absent result
\* or an empty summary, and no call changes what a later call is given.
C22_NeverRaises == []C22_Returns /\ [][UNCHANGED insightArgs]_vars

\* Both calls met an entry that is no dictionary and returned None, the
\* tracker after it had found mentions.
C22_Witness ==
    /\ p_pc = "done"
    /\ t_pc = "done"
    /\ SegmentLoopRaises(segments)
    /\ diarization_available
    /\ Len(mentions) > 0
    /\ insights.none
    /\ track_result.none

(***************************************************************************)
(* Properties of the upload request (SpecUpload).                          *)
(***************************************************************************)
\* C23: the request ends with a successful response exactly if transcription,
\* merge, summarization and action-item extraction all returned; the step
\* that ends a request with an error is never diarization, personal insights
\* or mention tracking, whose failure only leaves the output empty or absent;
\* the personal bundle and the mention report are non-null only if a user
\* name was supplied.
C23_RequiredAndOptional ==
    /\ u_pc = "done" =>
          /\ (status_code = 200) <=> (RequiredSteps \subseteq returned)
          /\ (status_code # 200) <=> (raised_at # "none")
          /\ raised_at \notin OptionalSteps
    /\ "diarize" \in swallowed => diarization_result = "empty"
    /\ "insights" \in swallowed => personal_insights = "null"
    /\ "mentions" \in swallowed => mention_tracking = "null"
    /\ (personal_insights # "null" \/ mention_tracking # "null")
          => NameGiven(query_user_name)

\* Every optional step failed and the request was answered with success.
C23_Witness ==
    /\ u_pc = "done"
    /\ status_code = 200
    /\ swallowed = OptionalSteps
    /\ RequiredSteps \subseteq returned

\* C28: a request whose file extension is not allowed is answered with status
\* 400, and nothing was saved or processed.
C28_FormatRejected ==
    (u_pc = "done" /\ file_ext \notin ALLOWED_AUDIO_FORMATS) =>
        /\ status_code = 400
        /\ ~file_on_disk
        /\ returned = {}

\* C29: when the request has ended, with a response or with an error, the
\* cleanup of the file that save_upload saved has been scheduled.
C29_SavedFileCleaned ==
    (u_pc = "done" /\ "save" \in returned) => cleanup_scheduled

(***************************************************************************)
(* Properties of the diarization service (SpecDiarization).                *)
(***************************************************************************)
\* The positions inside DiarizationService().
ConstructorPositions ==
    {"new", "new_lock", "new_inner", "new_return", "init", "init_lock",
     "init_inner", "init_pipeline", "init_device", "init_loading", "init_flag"}

\* What C24 asks of the states: one object is created, its fields are assigned
\* once, every constructor call returns that object, and a caller whose
\* constructor has returned finds the three fields set.
C24_OneInstance ==
    /\ created <= 1
    /\ init_count <= 1
    /\ \A t \in Callers : obtained[t] # 0 => obtained[t] = instance
    /\ \A t \in Callers :
          d_pc[t] \notin ConstructorPositions =>
              /\ obtained[t] # 0
              /\ \A u \in Callers :
                    d_pc[u] \notin ConstructorPositions => obtained[u] = obtained[t]
              /\ initialized
              /\ pipeline # "unset"
              /\ device # "unset"
              /\ is_loading # "unset"

\* C24 (SpecDiarization): under every interleaving of the constructions all
\* callers obtain the same instance, pipeline, device and _is_loading are
\* initialized exactly once and before any caller holds the instance, and no
\* step sets a loaded pipeline back to None.
C24_Singleton ==
    []C24_OneInstance /\ [][pipeline = "loaded" => pipeline' = "loaded"]_vars

\* A caller is inside the constructor after another caller has loaded the
\* pipeline, and has been given the same instance.
C24_Witness ==
    \E t, u \in Callers :
        /\ t # u
        /\ d_pc[t] = "init"
        /\ d_pc[u] = "returned"
        /\ pipeline = "loaded"
        /\ obtained[t] = obtained[u]
        /\ obtained[t] # 0

\* The callers between line 69 and the end of the finally clause of
\* _load_pipeline.
Loaders ==
    {t \in Callers :
        d_pc[t] \in {"load_model", "load_to", "finally_true", "finally_false"}}

\* C30 (SpecDiarization): at most one caller is inside the loading section of
\* _load_pipeline, _is_loading is false whenever no caller is inside it, and
\* the pipeline is loaded at most once.
C30_OneLoader ==
    /\ Cardinality(Loaders) <= 1
    /\ Loaders = {} => is_loading # "true"
    /\ load_count <= 1
====
